---- MODULE Spec2Model ----
(***************************************************************************)
(* Pronote -> Google Calendar synchronisation (shirlsgaw-org/pronote-cal).  *)
(*                                                                         *)
(* The model follows the Python sources:                                   *)
(*   lambda_function.py  lambda_handler, the orchestrator of one run        *)
(*   pronote_client.py   PronoteClient, the source reader and normaliser    *)
(*   calendar_client.py  CalendarClient, the destination adapter            *)
(*   config.py           Config, the environment-backed settings            *)
(*   test_local.py       the local drivers of the handler and the client    *)
(*                                                                         *)
(* A Python string is a sequence of one-character strings, so that strip,   *)
(* lower, concatenation and substring search are computed, not assumed.     *)
(* None, the empty string and the empty list are all the empty sequence     *)
(* where the code only tests truthiness; an Optional result is a set with   *)
(* at most one element.  A date is a day number.                            *)
(***************************************************************************)
EXTENDS Integers, Sequences, FiniteSets, TLC

VARIABLES
    config,            \* the settings Config reads from the environment
    today,             \* datetime.now().date(), as a day number
    portal,            \* what client.homework(start, end) returns: raw records
    periods,           \* client.periods, each with its raw evaluations
    calendar,          \* the events the destination calendar holds
    next_id,           \* the id the calendar gives its next inserted event
    pc,                \* the position of the running program
    invocations,       \* number of runs that have returned
    pronote_client,    \* the PronoteClient of the run: bound, _authenticated, client
    cal_authenticated, \* CalendarClient._authenticated of the run
    homework_list,     \* lambda_handler's homework_list
    exams_list,        \* lambda_handler's exams_list
    idx,               \* position of the for loop that is running (1-based)
    counts,            \* events_created, events_updated, events_skipped, ...
    error,             \* the exception on its way to the handler's except clause
    response,          \* what the run returned: a set with at most one result
    existing_event,    \* existing_event of a run between its search and its write
    item,              \* observation of the record the loop processed last
    run_log,           \* observation of the remote calls of the running run
    history            \* observation: one entry per returned run

vars == << config, today, portal, periods, calendar, next_id, pc, invocations,
           pronote_client, cal_authenticated, homework_list, exams_list, idx,
           counts, error, response, existing_event, item, run_log, history >>

-----------------------------------------------------------------------------
(* Bounds of the model.                                                    *)

MaxInvocations == 2
MaxHomework == 2

-----------------------------------------------------------------------------
(* Python strings.                                                         *)

UPPER == << "A","B","C","D","E","F","G","H","I","J","K","L","M",
            "N","O","P","Q","R","S","T","U","V","W","X","Y","Z","É","Ô" >>
LOWER == << "a","b","c","d","e","f","g","h","i","j","k","l","m",
            "n","o","p","q","r","s","t","u","v","w","x","y","z","é","ô" >>

Whitespace == { " ", "\t", "\n" }

None == << >>

SetMin(S) == CHOOSE m \in S : \A o \in S : m <= o
SetMax(S) == CHOOSE m \in S : \A o \in S : m >= o

\* str.lower() of one character
lower_char(c) ==
    IF \E i \in 1..Len(UPPER) : UPPER[i] = c
    THEN LOWER[CHOOSE i \in 1..Len(UPPER) : UPPER[i] = c]
    ELSE c

\* a lower() that leaves the text as it is
keep_case(s) == s

\* str.lower()
lower(s) == [i \in 1..Len(s) |-> lower_char(s[i])]

\* str.strip(): leading and trailing whitespace removed, inner whitespace kept
strip(s) ==
    LET solid == { i \in 1..Len(s) : s[i] \notin Whitespace }
    IN  IF solid = {} THEN << >> ELSE SubSeq(s, SetMin(solid), SetMax(solid))

\* keyword in text
contains(text, keyword) ==
    \E i \in 0..(Len(text) - Len(keyword)) :
        SubSeq(text, i + 1, i + Len(keyword)) = keyword

\* date.strftime('%Y-%m-%d'): one token per day, different days differ
strftime(d) == << ToString(d) >>

\* hashlib.sha256(content).hexdigest(): a collision-free digest, never empty
sha256(content) == << "sha256" >> \o content

-----------------------------------------------------------------------------
(* pronote_client.py: the fingerprint generator and the normaliser.        *)

generate_content_hash(subject, due_date, description) ==
    LET normalized_subject == lower(strip(subject))
        normalized_description == lower(strip(description))
        due_date_str == strftime(due_date)
        content == normalized_subject \o << "|" >> \o due_date_str
                       \o << "|" >> \o normalized_description
    IN  sha256(content)

\* an exam hash computed the way the homework hash is
exam_hash_as_homework(subject, exam_date, description, source_type) ==
    generate_content_hash(subject, exam_date, description)

\* an exam hash that leaves the source type out
exam_hash_without_source(subject, exam_date, description, source_type) ==
    sha256(<< "e","x","a","m","|" >> \o lower(strip(subject)) \o << "|" >>
               \o strftime(exam_date) \o << "|" >> \o lower(strip(description)))

\* _generate_exam_content_hash, lines 525-538
generate_exam_content_hash(subject, exam_date, description, source_type) ==
    LET normalized_subject == lower(strip(subject))
        normalized_description == lower(strip(description))
        exam_date_str == strftime(exam_date)
        content == << "e","x","a","m","|" >> \o normalized_subject \o << "|" >>
                       \o exam_date_str \o << "|" >> \o normalized_description
                       \o << "|" >> \o source_type
    IN  sha256(content)

test_keywords ==
    << <<"c","o","n","t","r","ô","l","e">>,
       <<"d","e","v","o","i","r"," ","s","u","r","v","e","i","l","l","é">>,
       <<"e","x","a","m","e","n">>,
       <<"t","e","s","t">>,
       <<"é","v","a","l","u","a","t","i","o","n">>,
       <<"d","s">>,
       <<"d","m">>,
       <<"i","n","t","e","r","r","o">>,
       <<"i","n","t","e","r","r","o","g","a","t","i","o","n">>,
       <<"b","a","c">>,
       <<"p","a","r","t","i","e","l">>,
       <<"q","u","i","z">>,
       <<"b","r","e","v","e","t">>,
       <<"r","é","v","i","s","e","r"," ","p","o","u","r">>,
       <<"r","e","v","i","s","e","r"," ","p","o","u","r">>,
       <<"p","r","é","p","a","r","e","r"," ","p","o","u","r">>,
       <<"p","r","e","p","a","r","e","r"," ","p","o","u","r">>,
       <<"e","v","a","l","u","a","t","i","o","n"," ","d","e">>,
       <<"é","v","a","l","u","a","t","i","o","n"," ","d","e">>,
       <<"t","e","s","t"," ","d","e">>,
       <<"c","o","n","t","r","o","l","e"," ","d","e">>,
       <<"c","o","n","t","r","ô","l","e"," ","d","e">> >>

non_test_keywords ==
    << <<"f","o","r","m">>,
       <<"f","o","r","m","u","l","a","i","r","e">>,
       <<"c","o","m","p","l","e","t","e"," ","t","h","i","s"," ","f","o","r","m">>,
       <<"s","u","r","v","e","y">>,
       <<"v","o","t","e">>,
       <<"r","e","g","i","s","t","r","a","t","i","o","n">>,
       <<"b","r","i","n","g">>,
       <<"a","p","p","o","r","t","e","r">>,
       <<"r","e","n","d","r","e">>,
       <<"s","u","b","m","i","t">>,
       <<"t","u","r","n"," ","i","n">>,
       <<"d","u","e"," ","b","e","f","o","r","e"," ","m","i","d","n","i","g","h","t">>,
       <<"t","a","t","t","o","o">>,
       <<"a","r","t"," ","s","h","o","w">>,
       <<"f","a","v","o","r","i","t","e"," ","p","i","e","c","e">>,
       <<"p","l","e","a","s","e"," ","c","o","m","p","l","e","t","e"," ","t","h","i","s"," ","f","o","r","m">> >>

homework_keywords ==
    << <<"e","x","e","r","c","i","c","e">>,
       <<"d","e","v","o","i","r"," ","m","a","i","s","o","n">>,
       <<"h","o","m","e","w","o","r","k">>,
       <<"t","r","a","v","a","i","l">> >>

any_keyword_in(keywords, text) ==
    \E k \in 1..Len(keywords) : contains(text, keywords[k])

\* a classifier that looks for the test keywords first
classify_test_first(description) ==
    LET description_lower == lower(description)
    IN  IF any_keyword_in(test_keywords, description_lower) THEN "test"
        ELSE "homework"

\* _determine_assignment_type, lines 552-585
determine_assignment_type(description) ==
    LET description_lower == lower(description)
    IN  IF any_keyword_in(non_test_keywords, description_lower) THEN "homework"
        ELSE IF any_keyword_in(test_keywords, description_lower) THEN "test"
        ELSE IF any_keyword_in(homework_keywords, description_lower) THEN "homework"
        ELSE "homework"

homework_placeholder ==
    <<"H","o","m","e","w","o","r","k"," ","a","s","s","i","g","n","m","e","n","t">>

\* a normaliser that dates a record without a date today instead of leaving
\* it out
standardize_undated_too(hw) ==
    LET stripped == strip(hw.description)
        description == IF stripped = << >> THEN homework_placeholder ELSE stripped
        due_date == IF hw.date = None THEN today ELSE hw.date[1]
    IN  { [ subject |-> hw.subject,
            description |-> description,
            detailed_description |-> hw.description,
            due_date |-> due_date,
            assignment_type |-> determine_assignment_type(description),
            content_hash |->
                generate_content_hash(hw.subject, due_date, description) ] }

\* _standardize_homework: the standardized record, or nothing for a record
\* without a date.  hw.date is None (the empty sequence) or << day >>.
standardize_homework(hw) ==
    LET stripped == strip(hw.description)
        description == IF stripped = << >> THEN homework_placeholder ELSE stripped
    IN  IF hw.date = None THEN { }
        ELSE { [ subject |-> hw.subject,
                 description |-> description,
                 detailed_description |-> hw.description,
                 due_date |-> hw.date[1],
                 assignment_type |-> determine_assignment_type(description),
                 content_hash |->
                     generate_content_hash(hw.subject, hw.date[1], description) ] }

\* the loop of get_homework over raw_homework: the records that standardize
RECURSIVE standardize_all(_)
standardize_all(raw) ==
    IF raw = << >> THEN << >>
    ELSE LET homework_item == standardize_homework(Head(raw))
         IN  (IF homework_item = { } THEN << >>
              ELSE << CHOOSE h \in homework_item : TRUE >>)
             \o standardize_all(Tail(raw))

\* the date range of get_homework (lines 313-321) and get_exams (lines 109-117)
date_range(days_ahead) ==
    IF days_ahead >= 0
    THEN [ start_date |-> today, end_date |-> today + days_ahead ]
    ELSE [ start_date |-> today + days_ahead, end_date |-> today ]

\* client.homework(start_date, end_date): the portal's records of the range
client_homework(raw, range) ==
    SelectSeq(raw, LAMBDA hw :
                     \/ hw.date = None
                     \/ /\ range.start_date <= hw.date[1]
                        /\ hw.date[1] <= range.end_date)

\* get_homework, lines 312-342, when the remote read succeeds
get_homework(raw, days_ahead) ==
    standardize_all(client_homework(raw, date_range(days_ahead)))

evaluation_placeholder == <<"E","v","a","l","u","a","t","i","o","n">>

\* _standardize_evaluation: the standardized exam record, or nothing for an
\* evaluation without a date
standardize_evaluation(evaluation) ==
    LET stripped == strip(evaluation.name)
        name == IF stripped = << >> THEN evaluation_placeholder ELSE stripped
    IN  IF evaluation.date = None THEN { }
        ELSE { [ subject |-> evaluation.subject,
                 description |-> name,
                 detailed_description |-> strip(evaluation.description),
                 exam_date |-> evaluation.date[1],
                 teacher |-> "Unknown Teacher",
                 coefficient |-> 1,
                 assignment_type |-> "exam",
                 data_source |-> "evaluation",
                 content_hash |->
                     generate_exam_content_hash(evaluation.subject,
                                                evaluation.date[1], name,
                                                << "evaluation" >>) ] }

\* the loop over the evaluations without the test of line 254: every dated
\* evaluation of the period is kept
RECURSIVE evaluations_of_any_date(_, _)
evaluations_of_any_date(evaluations, range) ==
    IF evaluations = << >> THEN << >>
    ELSE LET exam_item == standardize_evaluation(Head(evaluations))
         IN  (IF exam_item # { } THEN << CHOOSE e \in exam_item : TRUE >>
              ELSE << >>)
             \o evaluations_of_any_date(Tail(evaluations), range)

\* get_exams, lines 238-265: the evaluations of one period that are dated
\* inside the range and standardize
RECURSIVE evaluations_in_range(_, _)
evaluations_in_range(evaluations, range) ==
    IF evaluations = << >> THEN << >>
    ELSE LET evaluation == Head(evaluations)
             exam_item == standardize_evaluation(evaluation)
             kept == /\ evaluation.date # None
                     /\ range.start_date <= evaluation.date[1]
                     /\ evaluation.date[1] <= range.end_date
                     /\ exam_item # { }
         IN  (IF kept THEN << CHOOSE e \in exam_item : TRUE >> ELSE << >>)
             \o evaluations_in_range(Tail(evaluations), range)

\* get_exams, lines 213-270: the loop over client.periods.  A period outside
\* the range is skipped; a period whose evaluations cannot be read is logged
\* and skipped (lines 268-270).  evaluations_ok[k] tells whether the read of
\* the k-th period's evaluations succeeds.
RECURSIVE period_exams(_, _, _, _)
period_exams(all_periods, k, range, evaluations_ok) ==
    IF k > Len(all_periods) THEN << >>
    ELSE LET period == all_periods[k]
             outside == \/ period.end < range.start_date
                        \/ period.start > range.end_date
         IN  (IF outside \/ ~evaluations_ok[k] THEN << >>
              ELSE evaluations_in_range(period.evaluations, range))
             \o period_exams(all_periods, k + 1, range, evaluations_ok)

\* get_test_events_from_homework, lines 608-627: the exam record made of one
\* standardized homework record
test_event(hw) ==
    [ subject |-> hw.subject,
      description |-> hw.description,
      detailed_description |-> hw.detailed_description,
      exam_date |-> hw.due_date,
      teacher |-> "Unknown Teacher",
      coefficient |-> 1,
      assignment_type |-> "exam",
      data_source |-> "homework_test",
      content_hash |->
          generate_exam_content_hash(hw.subject, hw.due_date, hw.description,
                                     << "homework_test" >>) ]

\* an extraction pass that converts every homework record
every_homework_as_test_event(records) ==
    [ i \in 1..Len(records) |-> test_event(records[i]) ]

\* get_test_events_from_homework, lines 603-631, over the re-read homework
RECURSIVE test_events(_)
test_events(records) ==
    IF records = << >> THEN << >>
    ELSE (IF Head(records).assignment_type = "test"
          THEN << test_event(Head(records)) >> ELSE << >>)
         \o test_events(Tail(records))

\* get_test_events_from_homework: every exception, that of the homework read
\* included, is caught (lines 635-637) and the result is the empty list
get_test_events_from_homework(raw, days_ahead, reread_ok) ==
    IF reread_ok THEN test_events(get_homework(raw, days_ahead)) ELSE << >>

\* get_exams without lines 280-286: the combined list as it is
without_deduplication(all_exams, seen) == all_exams

\* get_exams, lines 280-286: the first record of each content hash is kept
RECURSIVE unique_exams(_, _)
unique_exams(all_exams, seen) ==
    IF all_exams = << >> THEN << >>
    ELSE LET exam == Head(all_exams)
             keep == exam.content_hash # None /\ exam.content_hash \notin seen
         IN  (IF keep THEN << exam >> ELSE << >>)
             \o unique_exams(Tail(all_exams),
                             IF keep THEN seen \cup { exam.content_hash } ELSE seen)

\* get_exams, lines 108-289, when client.periods can be read
get_exams(all_periods, raw, days_ahead, evaluations_ok, reread_ok) ==
    LET range == date_range(days_ahead)
        from_evaluations == period_exams(all_periods, 1, range, evaluations_ok)
        test_events_from_homework ==
            get_test_events_from_homework(raw, days_ahead, reread_ok)
    IN  unique_exams(from_evaluations \o test_events_from_homework, { })

-----------------------------------------------------------------------------
(* calendar_client.py: the destination adapter.                            *)

SearchWindowDays == 90

\* An event of the calendar: the fields the program writes and reads back.
Event(id, summary, content_hash, assignment_type, start, parent, days_before) ==
    [ id |-> id,
      summary |-> summary,
      source |-> "pronote",
      pronote_hash |-> content_hash,
      assignment_type |-> assignment_type,
      start |-> start,
      parent_exam_hash |-> parent,
      days_before |-> days_before,
      sync_version |-> "2.0" ]

\* create_event, lines 144-181: the event body ('pronote_hash': content_hash or '')
create_event(id, title, due_date, content_hash, assignment_type) ==
    Event(id, title, content_hash, assignment_type, due_date, None, 0)

\* an insert that would refuse a second event with a hash the calendar holds
insert_unless_hash_present(cal, event) ==
    IF \E e \in cal : e.pronote_hash = event.pronote_hash
    THEN cal ELSE cal \cup { event }

\* events().insert(calendarId, body).execute(), lines 183-186: the calendar adds
\* the event under a new id, whatever its extended properties are
insert(cal, event) == cal \cup { event }

\* an update call that returns True and leaves the stored event as it was
update_without_effect(cal, event_id, title, due_date, content_hash, assignment_type) ==
    cal

\* an update whose body carries no content hash
update_dropping_hash(cal, event_id, title, due_date, content_hash, assignment_type) ==
    { e \in cal : e.id # event_id }
        \cup { Event(event_id, title, None, assignment_type, due_date, None, 0) }

\* update_event, lines 505-542: events().update replaces the event's body
update_event(cal, event_id, title, due_date, content_hash, assignment_type) ==
    { e \in cal : e.id # event_id }
        \cup { Event(event_id, title, content_hash, assignment_type, due_date, None, 0) }

\* the emoji the titles of exam events and of reminders start with
exam_marker == << "(graduation cap)", " " >>
reminder_marker == << "(bell)", " " >>

\* create_exam_event, lines 232-269: the event body
create_exam_event(id, title, exam_date, content_hash) ==
    Event(id, exam_marker \o title, content_hash, "exam", exam_date, None, 0)

\* range(1, 8) of create_study_reminder_events
ReminderDays == 7

\* a reminder hash that leaves days_before out: sha256 of f"reminder|{base_hash}"
reminder_hash_of_parent(base_hash, days_before) ==
    sha256(<< "r","e","m","i","n","d","e","r","|" >> \o base_hash)

\* _generate_reminder_hash: sha256 of f"reminder|{base_hash}|{days_before}"
generate_reminder_hash(base_hash, days_before) ==
    sha256(<< "r","e","m","i","n","d","e","r","|" >> \o base_hash
               \o << "|", ToString(days_before) >>)

\* the loop of create_study_reminder_events without the test of lines 313-314
every_reminder_day(exam_date) == 1..ReminderDays

\* create_study_reminder_events, lines 313-317: the days_before values whose
\* reminder date is not in the past
reminder_days(exam_date) ==
    { days_before \in 1..ReminderDays : ~(exam_date - days_before < today) }

\* create_study_reminder_events, lines 324-328
reminder_title(subject, days_before) ==
    IF days_before = 1
    THEN reminder_marker \o << "Final review: " >> \o subject
             \o << " exam tomorrow" >>
    ELSE reminder_marker \o << "Study reminder: " >> \o subject
             \o << " exam in ", ToString(days_before), " days" >>

\* create_study_reminder_events, lines 336-375: the events inserted for the
\* days_before values of inserted, the calendar numbering them from first_id in
\* the order of the loop
study_reminder_events(first_id, subject, exam_date, content_hash_base, inserted) ==
    { Event(first_id + Cardinality({ o \in inserted : o < days_before }),
            reminder_title(subject, days_before),
            generate_reminder_hash(content_hash_base, days_before),
            "study_reminder", exam_date - days_before,
            content_hash_base, days_before) : days_before \in inserted }

\* how many of the inserts of one call of create_study_reminder_events fail
MaxFailedInserts == 1

\* a fan-out that ends at the first insert that raises: the days_before values
\* before it, in the order of the loop
outcomes_ending_at_failure(attempted) ==
    { attempted } \cup { { d \in attempted : d < failed } : failed \in attempted }

\* create_study_reminder_events, lines 372-384: an insert that raises is logged
\* and the loop goes on; the days_before values whose insert succeeded
insert_outcomes(attempted) ==
    { attempted \ failed :
        failed \in { f \in SUBSET attempted : Cardinality(f) <= MaxFailedInserts } }

\* a list call with a window of 30 days back and 30 days ahead
listed_within_thirty_days(cal, edge) ==
    { e \in cal : today - 30 < e.start /\ e.start < today + 30 }

\* a list call without timeMin and timeMax: every event of the calendar
listed_without_window(cal, edge) == cal

\* events().list(timeMin = now - 90 days, timeMax = now + 90 days): events that
\* start strictly inside the window are listed; on the two edge days it depends
\* on the time of day of the call (edge).
listed_events(cal, edge) ==
    { e \in cal :
        \/ today - SearchWindowDays < e.start /\ e.start < today + SearchWindowDays
        \/ edge /\ e.start \in { today - SearchWindowDays, today + SearchWindowDays } }

\* the test of lines 460-461 on one listed event
hash_matches(e, content_hash) ==
    e.source = "pronote" /\ e.pronote_hash = content_hash

\* event_exists_by_hash, lines 436-480: the possible return values (each a set
\* with at most one event).  A failing list call is caught and gives None.  The
\* list is ordered by start time and the first match is returned; the order of
\* events with equal start is the service's choice.
event_exists_by_hash(cal, content_hash, list_ok, edge) ==
    IF ~list_ok THEN { { } }
    ELSE LET matches == { e \in listed_events(cal, edge) : hash_matches(e, content_hash) }
             first == { e \in matches : \A o \in matches : e.start <= o.start }
         IN  IF matches = { } THEN { { } } ELSE { { e } : e \in first }

-----------------------------------------------------------------------------
(* config.py                                                               *)

\* the properties class Config defines
ConfigProperties ==
    { "secrets_client", "pronote_credentials_secret_name",
      "google_credentials_secret_name", "pronote_url", "pronote_username",
      "pronote_password", "google_calendar_id", "aws_region", "log_level",
      "sync_days_ahead", "event_duration_hours", "timezone", "dry_run",
      "exam_sync_enabled", "exam_days_ahead", "study_reminders_enabled",
      "study_reminder_days_before", "study_reminder_time_pst",
      "exam_event_duration_hours" }

\* the keyword parameters PronoteClient.get_exams accepts
GetExamsParameters == { "days_ahead" }

\* the default of SYNC_DAYS_AHEAD
SyncDaysAhead == 30

\* a value of SYNC_DAYS_AHEAD above the search window of the calendar adapter
WideSyncDaysAhead == 120

\* _validate_required_vars: required_vars
RequiredVars ==
    { "PRONOTE_CREDENTIALS_SECRET_NAME", "GOOGLE_CREDENTIALS_SECRET_NAME",
      "GOOGLE_CALENDAR_ID" }

\* the environment with every required variable set
FullEnvironment == [ var \in RequiredVars |-> << "x" >> ]

\* os.environ: every required variable set, or one of them missing or blank
Environments ==
    { FullEnvironment }
        \cup { [ FullEnvironment EXCEPT ![var] = value ] :
                 var \in RequiredVars, value \in { << >>, << " " >> } }

\* _validate_required_vars without its test: nothing is ever missing
validation_left_out(c) == TRUE

\* _validate_required_vars, lines 198-205: TRUE when it returns, FALSE when it
\* raises ValueError (os.getenv(var, '').strip() is empty for some variable)
validate_required_vars(c) ==
    \A var \in RequiredVars : strip(c.environ[var]) # << >>

Configs ==
    [ environ : Environments,
      sync_days_ahead : { SyncDaysAhead, WideSyncDaysAhead },
      exam_sync_enabled : BOOLEAN,
      study_reminders_enabled : BOOLEAN,
      dry_run : BOOLEAN ]

\* the settings of the runs of the whole handler; STUDY_REMINDERS_ENABLED, read
\* by the exam loop only, is left at its default
HandlerConfigs ==
    { c \in Configs : c.study_reminders_enabled
                        /\ c.sync_days_ahead = SyncDaysAhead }

-----------------------------------------------------------------------------
(* The source portal the model runs against.                               *)

subject_M == << "M" >>
subject_m == << "m" >>
text_ds == << "d", "s" >>
subject_M_padded == << " ", "M" >>
text_ex == << "e", "x" >>

RawHomework(subject, description, date) ==
    [ subject |-> subject, description |-> description, date |-> date ]

\* raw homework records: a test announcement, the same with the subject in
\* another case, with a padded subject, with an edited description, and with
\* no date
RawHomeworkRecords ==
    { RawHomework(subject_M, text_ds, << today + 1 >>),
      RawHomework(subject_m, text_ds, << today + 1 >>),
      RawHomework(subject_M_padded, text_ds, << today + 1 >>),
      RawHomework(subject_M, text_ex, << today + 1 >>),
      RawHomework(subject_M, text_ds, None) }

RECURSIVE ListsUpTo(_, _)
ListsUpTo(S, n) ==
    IF n = 0 THEN { << >> }
    ELSE LET shorter == ListsUpTo(S, n - 1)
         IN  shorter \cup { Append(l, x) : l \in shorter, x \in S }

Snapshots == ListsUpTo(RawHomeworkRecords, MaxHomework)

-----------------------------------------------------------------------------
(* Observations (history variables): they record what a step did and are   *)
(* read by no step.                                                        *)

NoCounts ==
    [ events_created |-> 0, events_updated |-> 0, events_skipped |-> 0,
      exam_events_created |-> 0, reminder_events_created |-> 0 ]

NoItem ==
    [ loop |-> "none", index |-> 0, content_hash |-> None, title |-> None,
      carried |-> { }, searches |-> 0, search_failed |-> FALSE,
      auth_raised |-> FALSE, existing |-> { }, decision |-> "NONE",
      call |-> "none", call_ok |-> FALSE, reminder_calls |-> 0,
      exam_date |-> 0, attempted |-> { }, inserted |-> { },
      counts_before |-> NoCounts, calendar_before |-> { } ]

NewRunLog(cal) ==
    [ calendar_at_start |-> cal, search_calls |-> 0, insert_calls |-> 0,
      update_calls |-> 0, created |-> << >>, item_errors |-> 0,
      auth_failed_at |-> 0, processed |-> 0, faults |-> FALSE,
      failed_reads |-> { }, fetch_calls |-> 0, test_events |-> << >>,
      all_exams |-> << >>, reminders_for |-> { } ]

NoClient ==
    [ bound |-> FALSE, authenticated |-> FALSE, client |-> FALSE,
      close_calls |-> 0, close_error |-> FALSE ]

-----------------------------------------------------------------------------
(* lambda_function.py: lambda_handler, one action per step of a run.       *)

\* lines 48-67: Config(), PronoteClient.from_config(config), CalendarClient(...)
Invoke ==
    /\ pc = "idle"
    /\ invocations < MaxInvocations
    /\ homework_list' = << >>
    /\ exams_list' = << >>
    /\ idx' = 0
    /\ counts' = NoCounts
    /\ response' = { }
    /\ item' = NoItem
    /\ cal_authenticated' = FALSE
    /\ \E secrets_ok \in BOOLEAN :
         IF ~validate_required_vars(config)
         THEN \* Config._validate_required_vars raises ValueError
              /\ error' = "Missing required environment variables"
              /\ pronote_client' = NoClient
              /\ run_log' = NewRunLog(calendar)
              /\ pc' = "except"
         ELSE IF ~secrets_ok
         THEN \* config.pronote_url: the credentials cannot be loaded
              /\ error' = "Failed to load Pronote credentials"
              /\ pronote_client' = NoClient
              /\ run_log' = [ NewRunLog(calendar) EXCEPT !.faults = TRUE ]
              /\ pc' = "except"
         ELSE /\ error' = "none"
              /\ run_log' = NewRunLog(calendar)
              /\ pronote_client' = [ NoClient EXCEPT !.bound = TRUE ]
              /\ pc' = "fetch_homework"
    /\ UNCHANGED << existing_event, config, today, portal, periods, calendar,
                    next_id,
                    invocations, history >>

\* lines 69-72 with PronoteClient.get_homework (and authenticate, lines 59-89)
FetchHomework ==
    /\ pc = "fetch_homework"
    /\ \E login \in { "ok", "not_logged_in", "raises" }, read_ok \in BOOLEAN :
         IF ~pronote_client.authenticated /\ login = "raises"
         THEN /\ error' = "Failed to authenticate with Pronote"
              /\ pc' = "except"
              /\ run_log' = [ run_log EXCEPT !.faults = TRUE,
                                             !.fetch_calls = @ + 1 ]
              /\ UNCHANGED << pronote_client, homework_list >>
         ELSE IF ~pronote_client.authenticated /\ login = "not_logged_in"
         THEN /\ error' = "Cannot fetch homework: authentication failed"
              /\ pc' = "except"
              /\ run_log' = [ run_log EXCEPT !.faults = TRUE,
                                             !.fetch_calls = @ + 1 ]
              /\ pronote_client' = [ pronote_client EXCEPT !.client = TRUE ]
              /\ UNCHANGED homework_list
         ELSE IF ~read_ok
         THEN /\ error' = "Failed to fetch homework"
              /\ pc' = "except"
              /\ run_log' = [ run_log EXCEPT !.faults = TRUE,
                                             !.failed_reads = { "homework" },
                                             !.fetch_calls = @ + 1 ]
              /\ pronote_client' = [ pronote_client EXCEPT !.client = TRUE,
                                                           !.authenticated = TRUE ]
              /\ UNCHANGED homework_list
         ELSE /\ homework_list' = get_homework(portal, config.sync_days_ahead)
              /\ pronote_client' = [ pronote_client EXCEPT !.client = TRUE,
                                                           !.authenticated = TRUE ]
              /\ pc' = "fetch_exams"
              /\ run_log' = [ run_log EXCEPT !.fetch_calls = @ + 1 ]
              /\ UNCHANGED error
    /\ UNCHANGED << existing_event, config, today, portal, periods, calendar,
                    next_id,
                    invocations, cal_authenticated, exams_list, idx, counts,
                    response, item, history >>

\* lines 74-79: exams_list = pronote_client.get_exams(days_back=config.exam_lookback_days)
FetchExams ==
    /\ pc = "fetch_exams"
    /\ IF ~config.exam_sync_enabled
       THEN /\ pc' = "homework_loop"
            /\ idx' = 1
            /\ UNCHANGED error
       ELSE IF "exam_lookback_days" \notin ConfigProperties
       THEN \* AttributeError: Config has no attribute exam_lookback_days
            /\ error' = "'Config' object has no attribute 'exam_lookback_days'"
            /\ pc' = "except"
            /\ UNCHANGED idx
       ELSE \* TypeError: get_exams() got an unexpected keyword argument
            /\ "days_back" \notin GetExamsParameters
            /\ error' = "get_exams() got an unexpected keyword argument 'days_back'"
            /\ pc' = "except"
            /\ UNCHANGED idx
    /\ UNCHANGED << existing_event, config, today, portal, periods, calendar,
                    next_id,
                    invocations, pronote_client, cal_authenticated,
                    homework_list, exams_list, counts, response, item,
                    run_log, history >>

\* lines 184-190 without their conditions: the fan-out is entered for every
\* exam record that reaches the search
reminders_always_due(event_created, exam_date) == TRUE

\* lines 189-190 without line 184: the fan-out is entered for every exam in the
\* future, whether its event was created in this iteration or not
reminders_due_without_create(event_created, exam_date) ==
    /\ config.study_reminders_enabled
    /\ exam_date > today

\* lines 184 and 189-190: if event_id, and then if config.study_reminders_enabled
\* and exam['exam_date'] > datetime.now().date()
study_reminders_due(event_created, exam_date) ==
    /\ event_created
    /\ config.study_reminders_enabled
    /\ exam_date > today

\* the loops without the guard of lines 95 and 162: every record goes on to the
\* search
guard_left_out(content_hash) == FALSE

\* lines 95 and 162: if not content_hash
missing_hash(content_hash) == content_hash = None

\* lines 102-129: the branch lambda_handler takes on the search's result
decide(existing, event_title) ==
    IF existing # { }
    THEN IF (CHOOSE e \in existing : TRUE).summary # event_title
         THEN "UPDATE"
         ELSE "SKIP"
    ELSE "CREATE"

\* f"{homework['subject']}: {homework['description']}"
title_of(record) == record.subject \o << ":", " " >> \o record.description

\* lines 90-151: one iteration of the homework loop
ProcessHomework ==
    /\ pc = "homework_loop"
    /\ idx <= Len(homework_list)
    /\ LET homework == homework_list[idx]
           content_hash == homework.content_hash
           event_title == title_of(homework)
           seen == [ NoItem EXCEPT !.loop = "homework", !.index = idx,
                                   !.content_hash = content_hash,
                                   !.title = event_title,
                                   !.counts_before = counts,
                                   !.calendar_before = calendar,
                                   !.carried = { e \in calendar :
                                                   hash_matches(e, content_hash) } ]
       IN  IF missing_hash(content_hash)
           THEN \* lines 95-97: warning, continue
                /\ item' = [ seen EXCEPT !.decision = "NO_HASH" ]
                /\ run_log' = [ run_log EXCEPT !.processed = @ + 1 ]
                /\ UNCHANGED << calendar, next_id, counts, cal_authenticated >>
           ELSE \/ \* CalendarClient.authenticate raises inside
                   \* event_exists_by_hash (line 433); caught at line 149
                   /\ ~cal_authenticated
                   /\ item' = [ seen EXCEPT !.auth_raised = TRUE,
                                            !.decision = "ERROR" ]
                   /\ run_log' = [ run_log EXCEPT
                                     !.processed = @ + 1,
                                     !.item_errors = @ + 1,
                                     !.faults = TRUE,
                                     !.auth_failed_at =
                                         IF @ = 0 THEN idx ELSE @ ]
                   /\ UNCHANGED << calendar, next_id, counts, cal_authenticated >>
                \/ \E list_ok, edge, write_ok \in BOOLEAN :
                   \E existing \in event_exists_by_hash(calendar, content_hash,
                                                        list_ok, edge) :
                   LET decision == decide(existing, event_title)
                       wrote == write_ok /\ decision \in { "CREATE", "UPDATE" }
                   IN  /\ cal_authenticated' = TRUE
                       /\ calendar' =
                            IF decision = "CREATE" /\ write_ok
                            THEN calendar \cup
                                   { create_event(next_id, event_title,
                                                  homework.due_date, content_hash,
                                                  homework.assignment_type) }
                            ELSE IF decision = "UPDATE" /\ write_ok
                            THEN update_event(calendar,
                                              (CHOOSE e \in existing : TRUE).id,
                                              event_title, homework.due_date,
                                              content_hash,
                                              homework.assignment_type)
                            ELSE calendar
                       /\ next_id' = IF decision = "CREATE" /\ write_ok
                                     THEN next_id + 1 ELSE next_id
                       /\ counts' =
                            [ counts EXCEPT
                                !.events_created =
                                    IF decision = "CREATE" /\ write_ok
                                    THEN @ + 1 ELSE @,
                                !.events_updated =
                                    IF decision = "UPDATE" /\ write_ok
                                    THEN @ + 1 ELSE @,
                                !.events_skipped =
                                    IF decision = "SKIP" THEN @ + 1 ELSE @ ]
                       /\ item' = [ seen EXCEPT
                                      !.searches = 1,
                                      !.search_failed = ~list_ok,
                                      !.existing = existing,
                                      !.decision = decision,
                                      !.call = CASE decision = "CREATE" -> "insert"
                                                 [] decision = "UPDATE" -> "update"
                                                 [] OTHER -> "none",
                                      !.call_ok = wrote ]
                       /\ run_log' =
                            [ run_log EXCEPT
                                !.processed = @ + 1,
                                !.search_calls = @ + 1,
                                !.faults = @ \/ ~list_ok
                                             \/ (~write_ok /\ decision # "SKIP"),
                                !.insert_calls =
                                    IF decision = "CREATE" THEN @ + 1 ELSE @,
                                !.update_calls =
                                    IF decision = "UPDATE" THEN @ + 1 ELSE @,
                                !.created =
                                    IF decision = "CREATE" /\ write_ok
                                    THEN Append(@, content_hash) ELSE @ ]
    /\ idx' = idx + 1
    /\ UNCHANGED << existing_event, config, today, portal, periods, pc, invocations,
                    pronote_client, homework_list, exams_list, error,
                    response, history >>

\* the homework loop is exhausted; line 154: if config.exam_sync_enabled and exams_list
EndHomeworkLoop ==
    /\ pc = "homework_loop"
    /\ idx > Len(homework_list)
    /\ IF config.exam_sync_enabled /\ exams_list # << >>
       THEN pc' = "exam_loop" /\ idx' = 1
       ELSE pc' = "respond" /\ idx' = 0
    /\ UNCHANGED << existing_event, config, today, portal, periods, calendar,
                    next_id,
                    invocations, pronote_client, cal_authenticated,
                    homework_list, exams_list, counts, error, response, item,
                    run_log, history >>

\* an exam loop that counts nothing for an exam whose event exists
existing_exam_not_counted(c) == c

\* lines 205-208: the exam event exists; events_skipped += 1, the counter of
\* line 128
count_existing_exam(c) == [ c EXCEPT !.events_skipped = @ + 1 ]

\* lines 157-212: one iteration of the exam loop
ProcessExam ==
    /\ pc = "exam_loop"
    /\ idx <= Len(exams_list)
    /\ LET exam == exams_list[idx]
           content_hash == exam.content_hash
           exam_title == title_of(exam)
           seen == [ NoItem EXCEPT !.loop = "exam", !.index = idx,
                                   !.content_hash = content_hash,
                                   !.title = exam_title,
                                   !.counts_before = counts,
                                   !.calendar_before = calendar,
                                   !.carried = { e \in calendar :
                                                   hash_matches(e, content_hash) } ]
       IN  IF missing_hash(content_hash)
           THEN \* lines 162-164: warning, continue
                /\ item' = [ seen EXCEPT !.decision = "NO_HASH" ]
                /\ run_log' = [ run_log EXCEPT !.processed = @ + 1 ]
                /\ UNCHANGED << calendar, next_id, counts, cal_authenticated >>
           ELSE \/ \* CalendarClient.authenticate raises inside
                   \* event_exists_by_hash (line 433); caught at line 210
                   /\ ~cal_authenticated
                   /\ item' = [ seen EXCEPT !.auth_raised = TRUE,
                                            !.decision = "ERROR" ]
                   /\ run_log' = [ run_log EXCEPT
                                     !.processed = @ + 1,
                                     !.item_errors = @ + 1,
                                     !.faults = TRUE,
                                     !.auth_failed_at =
                                         IF @ = 0
                                         THEN Len(homework_list) + idx ELSE @ ]
                   /\ UNCHANGED << calendar, next_id, counts, cal_authenticated >>
                \/ \E list_ok, edge, write_ok \in BOOLEAN :
                   \E existing \in event_exists_by_hash(calendar, content_hash,
                                                        list_ok, edge) :
                   LET create == existing = { }
                       created == create /\ write_ok
                       exam_events == IF created
                                      THEN { create_exam_event(next_id, exam_title,
                                                               exam.exam_date,
                                                               content_hash) }
                                      ELSE { }
                       \* lines 193-198: the inserts create_study_reminder_events
                       \* issues
                       attempted == IF study_reminders_due(created, exam.exam_date)
                                    THEN reminder_days(exam.exam_date) ELSE { }
                   IN  \E inserted \in insert_outcomes(attempted) :
                       /\ cal_authenticated' = TRUE
                       /\ calendar' =
                            calendar
                              \cup exam_events
                              \cup study_reminder_events(
                                       next_id + Cardinality(exam_events),
                                       exam.subject, exam.exam_date,
                                       content_hash, inserted)
                       /\ next_id' = next_id + Cardinality(exam_events)
                                             + Cardinality(inserted)
                       /\ counts' =
                            LET counted ==
                                  [ counts EXCEPT
                                      !.exam_events_created =
                                          IF created THEN @ + 1 ELSE @,
                                      !.reminder_events_created =
                                          @ + Cardinality(inserted) ]
                            IN  IF create THEN counted
                                ELSE count_existing_exam(counted)
                       /\ item' = [ seen EXCEPT
                                      !.searches = 1,
                                      !.search_failed = ~list_ok,
                                      !.existing = existing,
                                      !.decision = IF create THEN "CREATE"
                                                   ELSE "SKIP",
                                      !.call = IF create THEN "insert"
                                               ELSE "none",
                                      !.call_ok = created,
                                      !.reminder_calls = Cardinality(attempted),
                                      !.exam_date = exam.exam_date,
                                      !.attempted = attempted,
                                      !.inserted = inserted ]
                       /\ run_log' =
                            [ run_log EXCEPT
                                !.processed = @ + 1,
                                !.search_calls = @ + 1,
                                !.faults = @ \/ ~list_ok
                                             \/ (create /\ ~write_ok)
                                             \/ inserted # attempted,
                                !.insert_calls =
                                    @ + (IF create THEN 1 ELSE 0)
                                      + Cardinality(attempted),
                                !.created =
                                    IF created
                                    THEN Append(@, content_hash) ELSE @,
                                !.reminders_for =
                                    IF study_reminders_due(created, exam.exam_date)
                                    THEN @ \cup { content_hash } ELSE @ ]
    /\ idx' = idx + 1
    /\ UNCHANGED << existing_event, config, today, portal, periods, pc, invocations,
                    pronote_client, homework_list, exams_list, error,
                    response, history >>

\* the exam loop is exhausted
EndExamLoop ==
    /\ pc = "exam_loop"
    /\ idx > Len(exams_list)
    /\ pc' = "respond"
    /\ idx' = 0
    /\ UNCHANGED << existing_event, config, today, portal, periods, calendar,
                    next_id,
                    invocations, pronote_client, cal_authenticated,
                    homework_list, exams_list, counts, error, response, item,
                    run_log, history >>

\* a success response whose total leaves the reminders out
success_total_without_reminders ==
    [ statusCode |-> 200,
      message |-> "Pronote to Calendar sync completed successfully",
      homework_events_created |-> counts.events_created,
      homework_events_updated |-> counts.events_updated,
      homework_events_skipped |-> counts.events_skipped,
      exam_events_created |-> counts.exam_events_created,
      reminder_events_created |-> counts.reminder_events_created,
      total_events_created |-> counts.events_created
                                 + counts.exam_events_created,
      total_homework |-> Len(homework_list),
      total_exams |-> Len(exams_list),
      sync_days_ahead |-> config.sync_days_ahead,
      exam_sync_enabled |-> config.exam_sync_enabled,
      study_reminders_enabled |-> config.study_reminders_enabled,
      dry_run |-> config.dry_run,
      idempotency_method |-> "content_hash",
      timestamp |-> today ]

\* lines 214-240: the success response
success_response ==
    [ statusCode |-> 200,
      message |-> "Pronote to Calendar sync completed successfully",
      homework_events_created |-> counts.events_created,
      homework_events_updated |-> counts.events_updated,
      homework_events_skipped |-> counts.events_skipped,
      exam_events_created |-> counts.exam_events_created,
      reminder_events_created |-> counts.reminder_events_created,
      total_events_created |-> counts.events_created
                                 + counts.exam_events_created
                                 + counts.reminder_events_created,
      total_homework |-> Len(homework_list),
      total_exams |-> Len(exams_list),
      sync_days_ahead |-> config.sync_days_ahead,
      exam_sync_enabled |-> config.exam_sync_enabled,
      study_reminders_enabled |-> config.study_reminders_enabled,
      dry_run |-> config.dry_run,
      idempotency_method |-> "content_hash",
      timestamp |-> today ]

\* an error result that also reports the counters of the run
failure_with_counts(message) ==
    [ success_response EXCEPT !.statusCode = 500, !.message = message ]
        @@ [ error |-> << "Error during Pronote sync: ", message >> ]

\* lines 242-252: the failure response
failure_response(message) ==
    [ statusCode |-> 500,
      error |-> << "Error during Pronote sync: ", message >>,
      timestamp |-> today ]

\* lines 214-240: building the response reads config.exam_lookback_days (line 232)
PrepareResponse ==
    /\ pc = "respond"
    /\ IF "exam_lookback_days" \in ConfigProperties
       THEN /\ response' = { success_response }
            /\ pc' = "finally"
            /\ UNCHANGED error
       ELSE /\ error' = "'Config' object has no attribute 'exam_lookback_days'"
            /\ pc' = "except"
            /\ UNCHANGED response
    /\ UNCHANGED << existing_event, config, today, portal, periods, calendar,
                    next_id,
                    invocations, pronote_client, cal_authenticated,
                    homework_list, exams_list, idx, counts, item, run_log,
                    history >>

\* a handler without the except clause of lines 242-252: the exception passes
\* through the finally clause and the call returns no result
ExceptionEscapes ==
    /\ pc = "except"
    /\ pc' = "finally"
    /\ UNCHANGED << existing_event, config, today, portal, periods, calendar,
                    next_id, invocations, pronote_client, cal_authenticated,
                    homework_list, exams_list, idx, counts, error, response,
                    item, run_log, history >>

\* lines 242-252: except Exception
HandleException ==
    /\ pc = "except"
    /\ response' = { failure_response(error) }
    /\ pc' = "finally"
    /\ UNCHANGED << existing_event, config, today, portal, periods, calendar,
                    next_id,
                    invocations, pronote_client, cal_authenticated,
                    homework_list, exams_list, idx, counts, error, item,
                    run_log, history >>

\* the cleanup without the call of close
close_left_out(client, close_ok) == client

\* a close without the finally clause of lines 672-674: when client.close()
\* raises, the flag and the client stay as they were
close_without_finally(client, close_ok) ==
    IF client.client /\ ~close_ok
    THEN [ client EXCEPT !.close_calls = @ + 1, !.close_error = TRUE ]
    ELSE [ client EXCEPT !.authenticated = FALSE,
                         !.client = FALSE,
                         !.close_calls = @ + 1,
                         !.close_error = FALSE ]

\* PronoteClient.close, lines 661-673: client.close() is called when a client
\* is set; when it raises (close_ok false) the error is logged at line 671;
\* the finally clause clears the flag and the client either way
close(client, close_ok) ==
    [ client EXCEPT !.authenticated = FALSE,
                    !.client = FALSE,
                    !.close_calls = @ + 1,
                    !.close_error = client.client /\ ~close_ok ]

\* lines 254-260: finally, then the return
Finally ==
    /\ pc = "finally"
    /\ \E close_ok \in BOOLEAN :
         pronote_client' = IF pronote_client.bound
                           THEN close(pronote_client, close_ok)
                           ELSE pronote_client
    /\ history' = Append(history,
                         [ snapshot |-> portal,
                           response |-> response,
                           created |-> run_log.created,
                           counts |-> counts,
                           faults |-> run_log.faults,
                           fatal |-> error,
                           last_item |-> item,
                           reminders_for |-> run_log.reminders_for,
                           calendar |-> calendar,
                           constructed |-> pronote_client.bound ])
    /\ invocations' = invocations + 1
    /\ pc' = "idle"
    \* the locals of the returned call are gone
    /\ homework_list' = << >>
    /\ exams_list' = << >>
    /\ idx' = 0
    /\ counts' = NoCounts
    /\ error' = "none"
    /\ response' = { }
    /\ item' = NoItem
    /\ run_log' = NewRunLog(calendar)
    /\ cal_authenticated' = FALSE
    /\ UNCHANGED << existing_event, config, today, portal, periods, calendar,
                    next_id >>

\* between two runs the school edits, adds or removes homework
PortalChange ==
    /\ pc = "idle"
    /\ invocations < MaxInvocations
    /\ portal' \in Snapshots \ { portal }
    /\ UNCHANGED << existing_event, config, today, periods, calendar, next_id,
                    pc, invocations, pronote_client, cal_authenticated, homework_list,
                    exams_list, idx, counts, error, response, item, run_log,
                    history >>

Init ==
    /\ config \in HandlerConfigs
    /\ today = 0
    /\ portal \in Snapshots
    /\ periods = << >>
    /\ calendar = { }
    /\ next_id = 1
    /\ pc = "idle"
    /\ invocations = 0
    /\ pronote_client = NoClient
    /\ cal_authenticated = FALSE
    /\ homework_list = << >>
    /\ exams_list = << >>
    /\ idx = 0
    /\ counts = NoCounts
    /\ error = "none"
    /\ response = { }
    /\ existing_event = { }
    /\ item = NoItem
    /\ run_log = NewRunLog({ })
    /\ history = << >>

Next ==
    \/ Invoke
    \/ FetchHomework
    \/ FetchExams
    \/ ProcessHomework
    \/ EndHomeworkLoop
    \/ PrepareResponse
    \/ HandleException
    \/ Finally
    \/ PortalChange

Spec == Init /\ [][Next]_vars

-----------------------------------------------------------------------------
(* The two loops of lambda_handler on their own: a run that stands at line  *)
(* 90 with lists of standardized records, among them records without a      *)
(* content hash, which get_homework and get_exams never deliver.            *)

MaxExams == 2

without_hash(record) == [ record EXCEPT !.content_hash = None ]

\* standardized homework records, and one that carries no content hash
LoopHomeworkRecords ==
    LET records == UNION { standardize_homework(hw) :
                             hw \in { RawHomework(subject_M, text_ds, << today + 1 >>),
                                      RawHomework(subject_m, text_ds, << today + 1 >>) } }
    IN  records \cup { without_hash(r) : r \in { h \in records : h.subject = subject_M } }

RawEvaluation(subject, name, date) ==
    [ subject |-> subject, name |-> name, description |-> << >>, date |-> date ]

\* how far ahead of today the evaluations of the harness are dated
ExamDaysAhead == { 0, 2, 3, 10 }

\* standardized exam records: scheduled evaluations dated today and two, three
\* and ten days ahead, a test taken from homework due tomorrow, and evaluations
\* without content hash
LoopExamRecords ==
    LET evaluations == UNION { standardize_evaluation(
                                   RawEvaluation(subject_M, text_ds, << today + d >>)) :
                               d \in ExamDaysAhead }
        from_homework == { test_event(h) :
                             h \in standardize_homework(
                                     RawHomework(subject_M, text_ds, << today + 1 >>)) }
    IN  evaluations \cup from_homework
            \cup { without_hash(e) : e \in { o \in evaluations :
                                               o.exam_date = today + 2 } }

LoopConfigs ==
    { c \in Configs : /\ validate_required_vars(c)
                      /\ c.sync_days_ahead = SyncDaysAhead
                      /\ ~c.dry_run }

InitLoops ==
    /\ config \in LoopConfigs
    /\ today = 0
    /\ portal = << >>
    /\ periods = << >>
    /\ calendar = { }
    /\ next_id = 1
    /\ pc = "homework_loop"
    /\ invocations = 0
    /\ pronote_client = [ NoClient EXCEPT !.bound = TRUE,
                                          !.authenticated = TRUE,
                                          !.client = TRUE ]
    /\ cal_authenticated = FALSE
    /\ homework_list \in ListsUpTo(LoopHomeworkRecords, MaxHomework)
    /\ exams_list \in ListsUpTo(LoopExamRecords, MaxExams)
    /\ idx = 1
    /\ counts = NoCounts
    /\ error = "none"
    /\ response = { }
    /\ existing_event = { }
    /\ item = NoItem
    /\ run_log = NewRunLog({ })
    /\ history = << >>

NextLoops ==
    \/ ProcessHomework
    \/ EndHomeworkLoop
    \/ ProcessExam
    \/ EndExamLoop
    \/ PrepareResponse
    \/ HandleException
    \/ Finally

SpecLoops == InitLoops /\ [][NextLoops]_vars

-----------------------------------------------------------------------------
(* test_local.py: test_pronote_client_only, the driver of PronoteClient on  *)
(* its own.  It sets EXAM_SYNC_ENABLED and DRY_RUN before Config is built.  *)

MaxPeriods == 2

\* days_ahead of the first get_homework call of the driver
ClientDaysAhead == 7

\* the driver calls get_exams and get_homework with days_ahead = -60
HistoricalDays == 60

\* raw homework the portal holds around today: a test announced for yesterday,
\* an exercise due yesterday, a test due tomorrow
ClientHomeworkRecords ==
    { RawHomework(subject_M, text_ds, << today - 1 >>),
      RawHomework(subject_M, text_ex, << today - 1 >>),
      RawHomework(subject_M, text_ds, << today + 1 >>) }

ClientSnapshots == ListsUpTo(ClientHomeworkRecords, MaxHomework)

Period(start, end, evaluations) ==
    [ start |-> start, end |-> end, evaluations |-> evaluations ]

\* the periods of the school year: the running term with one evaluation, or
\* with a past, an undated and a coming evaluation, and a term that ended
\* before the range of the driver
PortalPeriods ==
    { Period(today - 30, today + 30,
             << RawEvaluation(subject_M, text_ds, << today - 1 >>) >>),
      Period(today - 30, today + 30,
             << RawEvaluation(subject_M, text_ex, << today - 2 >>),
                RawEvaluation(subject_M, text_ds, None),
                RawEvaluation(subject_M, text_ex, << today + 3 >>) >>),
      Period(today - 200, today - 100,
             << RawEvaluation(subject_M, text_ds, << today - 150 >>) >>) }

PeriodLists == ListsUpTo(PortalPeriods, MaxPeriods)

\* the periods whose evaluations get_exams reads: those overlapping the range
periods_read(all_periods, range) ==
    { k \in 1..Len(all_periods) :
        ~ \/ all_periods[k].end < range.start_date
          \/ all_periods[k].start > range.end_date }

\* lines 85-86: Config(), PronoteClient.from_config(config)
ClientStart ==
    /\ pc = "client_start"
    /\ \E secrets_ok \in BOOLEAN :
         IF secrets_ok
         THEN /\ pronote_client' = [ NoClient EXCEPT !.bound = TRUE ]
              /\ pc' = "client_homework"
              /\ UNCHANGED << error, run_log >>
         ELSE /\ error' = "Failed to load Pronote credentials"
              /\ run_log' = [ run_log EXCEPT !.faults = TRUE ]
              /\ pc' = "client_except"
              /\ UNCHANGED pronote_client
    /\ UNCHANGED << existing_event, config, today, portal, periods, calendar,
                    next_id,
                    invocations, cal_authenticated, homework_list, exams_list,
                    idx, counts, response, item, history >>

\* line 89: homework_list = pronote_client.get_homework(days_ahead=7)
ClientGetHomework ==
    /\ pc = "client_homework"
    /\ \E login \in { "ok", "not_logged_in", "raises" }, read_ok \in BOOLEAN :
         IF ~pronote_client.authenticated /\ login = "raises"
         THEN /\ error' = "Failed to authenticate with Pronote"
              /\ pc' = "client_except"
              /\ run_log' = [ run_log EXCEPT !.faults = TRUE ]
              /\ UNCHANGED << pronote_client, homework_list >>
         ELSE IF ~pronote_client.authenticated /\ login = "not_logged_in"
         THEN /\ error' = "Cannot fetch homework: authentication failed"
              /\ pc' = "client_except"
              /\ run_log' = [ run_log EXCEPT !.faults = TRUE ]
              /\ pronote_client' = [ pronote_client EXCEPT !.client = TRUE ]
              /\ UNCHANGED homework_list
         ELSE IF ~read_ok
         THEN /\ error' = "Failed to fetch homework"
              /\ pc' = "client_except"
              /\ run_log' = [ run_log EXCEPT !.faults = TRUE,
                                             !.failed_reads = { "homework" } ]
              /\ pronote_client' = [ pronote_client EXCEPT !.client = TRUE,
                                                           !.authenticated = TRUE ]
              /\ UNCHANGED homework_list
         ELSE /\ homework_list' = get_homework(portal, ClientDaysAhead)
              /\ pronote_client' = [ pronote_client EXCEPT !.client = TRUE,
                                                           !.authenticated = TRUE ]
              /\ pc' = IF config.exam_sync_enabled
                       THEN "client_exams" ELSE "client_close"
              /\ UNCHANGED << error, run_log >>
    /\ UNCHANGED << existing_event, config, today, portal, periods, calendar,
                    next_id,
                    invocations, cal_authenticated, exams_list, idx, counts,
                    response, item, history >>

\* line 94: exams_list = pronote_client.get_exams(days_ahead=-60).  Reading
\* client.periods fails inside the outer try (fatal); reading the evaluations
\* of a period and re-reading the homework fail inside inner handlers.
ClientGetExams ==
    /\ pc = "client_exams"
    /\ \E periods_ok, reread_ok \in BOOLEAN,
          evaluations_ok \in [ 1..Len(periods) -> BOOLEAN ] :
         IF ~periods_ok
         THEN /\ error' = "Failed to fetch exams"
              /\ pc' = "client_except"
              /\ run_log' = [ run_log EXCEPT !.faults = TRUE,
                                             !.failed_reads = { "periods" } ]
              /\ UNCHANGED exams_list
         ELSE LET range == date_range(-HistoricalDays)
                  failed == { k \in periods_read(periods, range) :
                                ~evaluations_ok[k] }
              IN  /\ exams_list' = get_exams(periods, portal, -HistoricalDays,
                                             evaluations_ok, reread_ok)
                  /\ run_log' =
                       [ run_log EXCEPT
                           !.test_events =
                               get_test_events_from_homework(
                                   portal, -HistoricalDays, reread_ok),
                           !.all_exams =
                               period_exams(periods, 1, range, evaluations_ok)
                               \o get_test_events_from_homework(
                                      portal, -HistoricalDays, reread_ok),
                           !.faults = @ \/ failed # { } \/ ~reread_ok,
                           !.failed_reads =
                               (IF failed # { } THEN { "evaluations" } ELSE { })
                               \cup (IF reread_ok THEN { }
                                     ELSE { "homework_reread" }) ]
                  /\ pc' = "client_historical"
                  /\ UNCHANGED error
    /\ UNCHANGED << existing_event, config, today, portal, periods, calendar,
                    next_id,
                    invocations, pronote_client, cal_authenticated,
                    homework_list, idx, counts, response, item, history >>

\* line 111: historical_homework = pronote_client.get_homework(days_ahead=-60)
ClientGetHistoricalHomework ==
    /\ pc = "client_historical"
    /\ \E read_ok \in BOOLEAN :
         IF read_ok
         THEN /\ pc' = "client_close"
              /\ UNCHANGED << error, run_log >>
         ELSE /\ error' = "Failed to fetch homework"
              /\ run_log' = [ run_log EXCEPT
                                !.faults = TRUE,
                                !.failed_reads = @ \cup { "homework" } ]
              /\ pc' = "client_except"
    /\ UNCHANGED << existing_event, config, today, portal, periods, calendar,
                    next_id,
                    invocations, pronote_client, cal_authenticated,
                    homework_list, exams_list, idx, counts, response, item,
                    history >>

\* line 124: pronote_client.close()
ClientClose ==
    /\ pc = "client_close"
    /\ \E close_ok \in BOOLEAN :
         pronote_client' = close(pronote_client, close_ok)
    /\ pc' = "client_done"
    /\ UNCHANGED << existing_event, config, today, portal, periods, calendar,
                    next_id,
                    invocations, cal_authenticated, homework_list, exams_list,
                    idx, counts, error, response, item, run_log, history >>

\* lines 127-130: except Exception, the traceback is printed
ClientExcept ==
    /\ pc = "client_except"
    /\ pc' = "client_done"
    /\ UNCHANGED << existing_event, config, today, portal, periods, calendar,
                    next_id,
                    invocations, pronote_client, cal_authenticated,
                    homework_list, exams_list, idx, counts, error, response,
                    item, run_log, history >>

InitClient ==
    /\ config = [ environ |-> FullEnvironment,
                  sync_days_ahead |-> SyncDaysAhead,
                  exam_sync_enabled |-> TRUE,
                  study_reminders_enabled |-> TRUE, dry_run |-> TRUE ]
    /\ today = 0
    /\ portal \in ClientSnapshots
    /\ periods \in PeriodLists
    /\ calendar = { }
    /\ next_id = 1
    /\ pc = "client_start"
    /\ invocations = 0
    /\ pronote_client = NoClient
    /\ cal_authenticated = FALSE
    /\ homework_list = << >>
    /\ exams_list = << >>
    /\ idx = 0
    /\ counts = NoCounts
    /\ error = "none"
    /\ response = { }
    /\ existing_event = { }
    /\ item = NoItem
    /\ run_log = NewRunLog({ })
    /\ history = << >>

NextClient ==
    \/ ClientStart
    \/ ClientGetHomework
    \/ ClientGetExams
    \/ ClientGetHistoricalHomework
    \/ ClientClose
    \/ ClientExcept

SpecClient == InitClient /\ [][NextClient]_vars

-----------------------------------------------------------------------------
(* Properties of the runs of lambda_handler.                               *)

\* the response of the k-th returned run
ResponseOf(k) == CHOOSE r \in history[k].response : TRUE

\* the k-th returned run met no failing remote call and no missing setting
CleanRun(k) == validate_required_vars(config) /\ ~history[k].faults

\* C1: for every homework record with a content hash for which the handler
\* takes a decision, the decision follows the destination: CREATE when no
\* event carries the hash, UPDATE when the events carrying it have another
\* title than the incoming one, SKIP when they have the incoming title, from
\* one search.
C1_DecisionFollowsDestination ==
    ( /\ item.loop = "homework"
      /\ item.content_hash # None
      /\ item.decision \in { "CREATE", "UPDATE", "SKIP" } )
    => /\ item.searches = 1
       /\ (item.carried = { }) => item.decision = "CREATE"
       /\ ( /\ item.carried # { }
            /\ \A e \in item.carried : e.summary # item.title )
          => item.decision = "UPDATE"
       /\ ( /\ item.carried # { }
            /\ \A e \in item.carried : e.summary = item.title )
          => item.decision = "SKIP"

\* C2: two runs without a failing remote call over the same snapshot, the
\* destination empty at first: the first returns N created, 0 updated, 0
\* skipped and the second 0 created, 0 updated, N skipped, N >= 1 the number
\* of homework records of the snapshot.
C2_TwoRunsCreateThenSkip ==
    ( /\ Len(history) = 2
      /\ history[1].snapshot = history[2].snapshot
      /\ get_homework(history[1].snapshot, config.sync_days_ahead) # << >>
      /\ CleanRun(1) /\ CleanRun(2) )
    => LET N == Len(get_homework(history[1].snapshot, config.sync_days_ahead))
           first == ResponseOf(1)
           second == ResponseOf(2)
       IN  /\ first.statusCode = 200
           /\ first.homework_events_created = N
           /\ first.homework_events_updated = 0
           /\ first.homework_events_skipped = 0
           /\ second.statusCode = 200
           /\ second.homework_events_created = 0
           /\ second.homework_events_updated = 0
           /\ second.homework_events_skipped = N

\* number of positions of sequence s holding x
Occurrences(s, x) == Cardinality({ i \in 1..Len(s) : s[i] = x })

\* C3: two sequential runs over the same snapshot make at most one CREATE per
\* content hash over both runs, and the destination never holds two events
\* with the same content hash.
C3_OneCreatePerHash ==
    ( /\ Len(history) = 2
      /\ history[1].snapshot = history[2].snapshot )
    => /\ \A e1, e2 \in calendar :
            e1.pronote_hash = e2.pronote_hash => e1.id = e2.id
       /\ LET creates == history[1].created \o history[2].created
          IN  \A i \in 1..Len(creates) : Occurrences(creates, creates[i]) = 1

\* C4: with dry-run mode enabled a run makes no create and no update call and
\* leaves the destination as it found it.
C4_DryRunMakesNoWrites ==
    config.dry_run
    => /\ run_log.insert_calls = 0
       /\ run_log.update_calls = 0
       /\ calendar = run_log.calendar_at_start

RECURSIVE HashesOf(_)
HashesOf(records) ==
    IF records = << >> THEN { }
    ELSE { Head(records).content_hash } \cup HashesOf(Tail(records))

\* C5: after runs without a failing remote call over snapshots that change
\* between the runs, no two events carry the same hash, and when a record was
\* edited at the source (same subject, other description or date, the old
\* content gone from the snapshot) the calendar does not hold the event of the
\* old content next to the event of the new content.
C5_NoDuplicateNoStaleEvent ==
    ( /\ pc = "idle"
      /\ Len(history) = 2
      /\ CleanRun(1) /\ CleanRun(2) )
    => LET before == get_homework(history[1].snapshot, config.sync_days_ahead)
           after == get_homework(history[2].snapshot, config.sync_days_ahead)
       IN  /\ \A e1, e2 \in calendar :
                e1.pronote_hash = e2.pronote_hash => e1.id = e2.id
           /\ \A i \in 1..Len(before), j \in 1..Len(after) :
                ( /\ before[i].subject = after[j].subject
                  /\ before[i].content_hash # after[j].content_hash
                  /\ before[i].content_hash \notin HashesOf(after) )
                => ~ ( /\ \E e \in calendar :
                            e.pronote_hash = before[i].content_hash
                       /\ \E e \in calendar :
                            e.pronote_hash = after[j].content_hash )

\* C6: an exception raised while one record is processed does not leave the
\* loop: every record of the list is processed and the run returns a success
\* result.
C6_ItemErrorKeepsRunSuccessful ==
    ( pc = "finally" /\ run_log.item_errors > 0 )
    => /\ run_log.processed = Len(homework_list) + Len(exams_list)
       /\ \A r \in response : r.statusCode = 200

\* C8: a failing search is a per-item error: no create call is issued for the
\* record and it is not counted as created.
C8_SearchFailureIssuesNoCreate ==
    item.search_failed
    => /\ item.call = "none"
       /\ ~item.call_ok

\* C9: a failing authentication against the calendar aborts the run: no later
\* record is processed, no response is prepared, and the result is a failure.
C9_CalendarAuthFailureAbortsRun ==
    run_log.auth_failed_at > 0
    => /\ item.index = run_log.auth_failed_at
       /\ pc # "respond"
       /\ \A r \in response : r.statusCode = 500

-----------------------------------------------------------------------------
(* Properties of the loops on their own and of the source reader.          *)

\* C7: a homework or exam record without content hash is passed over: no
\* search, no create, no update and no reminder call is made for it, no
\* counter changes, the calendar stays as it was, and no event of the calendar
\* carries an empty hash.
C7_HashlessRecordIsSkipped ==
    /\ (item.loop \in { "homework", "exam" } /\ item.content_hash = None)
       => /\ item.searches = 0
          /\ item.call = "none"
          /\ item.reminder_calls = 0
          /\ counts = item.counts_before
          /\ calendar = item.calendar_before
    /\ \A e \in calendar : e.pronote_hash # None

\* a run that passed over a hashless homework record and a hashless exam
\* record while other records of its lists gave events
C7_HashlessSkippedInBothLoops ==
    /\ item.loop = "exam"
    /\ item.content_hash = None
    /\ item.decision = "NO_HASH"
    /\ \E i \in 1..Len(homework_list) : homework_list[i].content_hash = None
    /\ counts.events_created > 0
    /\ counts.exam_events_created > 0

\* C10: a failing remote read of the fetch phase (homework, a period's
\* evaluations, the homework re-read of get_exams) raises: the caller does
\* not go on with the lists.
C10_FetchFailureIsFatal ==
    run_log.failed_reads # { } => error # "none"

-----------------------------------------------------------------------------
(* Properties of the result and of the exit paths of lambda_handler.       *)

\* C11: a run returns one result; a result of a run in which an exception
\* reached the handler has statusCode 500 and holds an error message and a
\* timestamp and nothing else; no result holds an error next to counters; a
\* run with a fatal error never returns a success result.
C11_FatalErrorGivesBareFailure ==
    /\ Cardinality(response) <= 1
    /\ pc = "finally" => Cardinality(response) = 1
    /\ \A r \in response :
         /\ r.statusCode \in { 200, 500 }
         /\ r.statusCode = 500
            => DOMAIN r = { "statusCode", "error", "timestamp" }
         /\ ~ ( /\ "error" \in DOMAIN r
                /\ "homework_events_created" \in DOMAIN r )
         /\ error # "none" => r.statusCode = 500
    /\ \A k \in 1..Len(history) :
         history[k].fatal # "none"
         => \A r \in history[k].response :
              r.statusCode = 500
              /\ DOMAIN r = { "statusCode", "error", "timestamp" }

\* a run that had created an event when the fatal error came: its result
\* holds the error only
C11_FatalErrorAfterCreate ==
    /\ pc = "finally"
    /\ error # "none"
    /\ counts.events_created > 0
    /\ \E r \in response : r.statusCode = 500

\* C12: when a run returns and its PronoteClient had been constructed, close
\* has been called on it (the flag cleared, the client dropped), whether the
\* run ended with a result of success, with per-item errors or with a fatal
\* error, and a failing client.close() leaves the run with its one result.
C12_ClientClosedOnEveryExit ==
    ( pc = "idle" /\ Len(history) > 0 )
    => LET last == history[Len(history)]
       IN  /\ last.constructed
              => /\ pronote_client.close_calls = 1
                 /\ ~pronote_client.authenticated
                 /\ ~pronote_client.client
           /\ Cardinality(last.response) = 1
           /\ \A r \in last.response :
                last.fatal # "none" => r.statusCode = 500

\* a run with a per-item error whose client.close() raised
C12_CloseRaisedAfterItemError ==
    /\ pc = "idle"
    /\ Len(history) = 1
    /\ history[1].constructed
    /\ pronote_client.close_error
    /\ history[1].faults
    /\ history[1].counts.events_created > 0

\* C13: with a required variable missing or blank the run contacts neither
\* the portal nor the calendar, constructs no client, and returns a failure
\* result.
C13_MissingSettingFailsAtStartup ==
    ( \E var \in RequiredVars : config.environ[var] \in { << >>, << " " >> } )
    => /\ pc \in { "idle", "except", "finally" }
       /\ ~pronote_client.bound
       /\ run_log.fetch_calls = 0
       /\ run_log.search_calls = 0
       /\ run_log.insert_calls = 0
       /\ run_log.update_calls = 0
       /\ calendar = { }
       /\ \A r \in response : r.statusCode = 500
       /\ \A k \in 1..Len(history) :
            /\ Cardinality(history[k].response) = 1
            /\ \A r \in history[k].response : r.statusCode = 500

\* a returned run whose GOOGLE_CALENDAR_ID was blank
C13_BlankCalendarIdRunReturned ==
    /\ config.environ["GOOGLE_CALENDAR_ID"] = << " " >>
    /\ Len(history) = 1
    /\ \E r \in history[1].response : r.statusCode = 500

\* C14: with exam sync enabled, a run whose remote calls all succeed returns
\* a success result whose total_exams is the number of fetched exam records.
C14_ExamSyncRunSucceeds ==
    ( /\ pc = "finally"
      /\ config.exam_sync_enabled
      /\ validate_required_vars(config)
      /\ ~run_log.faults )
    => \A r \in response :
         /\ r.statusCode = 200
         /\ r.total_exams = Len(exams_list)

\* the reminder events one iteration of the exam loop added to the calendar
NewReminders == { e \in calendar \ item.calendar_before :
                    e.assignment_type = "study_reminder" }

Min(a, b) == IF a <= b THEN a ELSE b

\* C15: for an exam record processed to a successful CREATE with study reminders
\* enabled, dated d >= 1 days ahead, and with every insert succeeding, the
\* reminder events created are those with days_before = 1..min(7, d), one each,
\* and the reminder counter grows by min(7, d): 7 for d = 10 and 3 for d = 3; a
\* reminder whose date is past is left out on its own.
C15_RemindersPerDaysAhead ==
    ( /\ item.loop = "exam"
      /\ item.decision = "CREATE"
      /\ item.call_ok
      /\ config.study_reminders_enabled
      /\ item.exam_date - today >= 1
      /\ item.inserted = item.attempted )
    => LET d == item.exam_date - today
           expected == 1..Min(7, d)
       IN  /\ { e.days_before : e \in NewReminders } = expected
           /\ Cardinality(NewReminders) = Min(7, d)
           /\ counts.reminder_events_created
                  = item.counts_before.reminder_events_created + Min(7, d)
           /\ \A e \in NewReminders : /\ e.start = item.exam_date - e.days_before
                                       /\ e.start >= today
           /\ d = 10 => Cardinality(NewReminders) = 7
           /\ d = 3 => Cardinality(NewReminders) = 3

\* C15 witness: a run created 7 reminders for an exam ten days ahead and then 3
\* reminders, for days_before 1, 2 and 3, for an exam three days ahead
C15_SevenThenThreeReminders ==
    /\ item.loop = "exam"
    /\ item.index = 2
    /\ item.decision = "CREATE"
    /\ item.call_ok
    /\ item.exam_date = today + 3
    /\ item.inserted = { 1, 2, 3 }
    /\ Cardinality(NewReminders) = 3
    /\ counts.reminder_events_created = 10
    /\ exams_list[1].exam_date = today + 10

\* C16: an iteration of the exam loop issues reminder inserts only when it has
\* just created the exam event (the search found nothing and the insert of the
\* exam event succeeded), the study-reminders flag is set and the exam date is
\* after today; an exam dated today or earlier, an exam found in the calendar
\* and an exam whose insert failed get no reminder, and the homework loop
\* creates none.
C16_RemindersOnlyAfterCreate ==
    LET reminders == \/ item.attempted # { }
                     \/ NewReminders # { }
                     \/ counts.reminder_events_created
                            # item.counts_before.reminder_events_created
    IN  /\ item.loop = "exam" /\ reminders
            => /\ item.decision = "CREATE"
               /\ item.existing = { }
               /\ item.call_ok
               /\ config.study_reminders_enabled
               /\ item.exam_date > today
        /\ item.loop = "homework"
            => counts.reminder_events_created
                  = item.counts_before.reminder_events_created
        /\ \A e \in calendar :
              e.assignment_type = "study_reminder"
                => /\ config.study_reminders_enabled
                   /\ \E x \in calendar : /\ x.assignment_type = "exam"
                                          /\ x.pronote_hash = e.parent_exam_hash
                                          /\ x.start > today

\* C16 witness: with the flag set, a run created reminders for one exam and then
\* created the event of an exam dated today without issuing a reminder insert
C16_ExamDatedTodayGetsNoReminder ==
    /\ config.study_reminders_enabled
    /\ item.loop = "exam"
    /\ item.decision = "CREATE"
    /\ item.call_ok
    /\ item.exam_date = today
    /\ item.attempted = { }
    /\ NewReminders = { }
    /\ item.counts_before.reminder_events_created > 0
    /\ counts.reminder_events_created
          = item.counts_before.reminder_events_created

Reminders == { e \in calendar : e.assignment_type = "study_reminder" }

\* C17: the hash of a reminder event is the digest of
\* "reminder|<parent exam hash>|<days_before>": two reminders carry the same hash
\* exactly when they have the same parent and the same days_before (so the
\* reminders of one exam differ pairwise, and a reminder created again for the
\* same exam and day gets the same hash), no reminder carries the hash of its
\* parent or of any other exam or homework event, and the reminders an iteration
\* creates all store the content hash of the exam record as parent_exam_hash.
C17_ReminderHashIdentity ==
    /\ \A e \in Reminders :
          /\ e.pronote_hash
                = sha256(<< "r","e","m","i","n","d","e","r","|" >>
                             \o e.parent_exam_hash
                             \o << "|", ToString(e.days_before) >>)
          /\ e.pronote_hash # e.parent_exam_hash
          /\ \A x \in calendar \ Reminders : x.pronote_hash # e.pronote_hash
          /\ \E x \in calendar : /\ x.assignment_type = "exam"
                                 /\ x.pronote_hash = e.parent_exam_hash
    /\ \A e1, e2 \in Reminders :
          e1.pronote_hash = e2.pronote_hash
            <=> /\ e1.parent_exam_hash = e2.parent_exam_hash
                /\ e1.days_before = e2.days_before
    /\ item.loop = "exam"
          => \A e \in NewReminders : e.parent_exam_hash = item.content_hash

\* C17 witness: an exam three days ahead was created twice (the second search
\* failed), so the calendar holds two reminders of the same exam and day with one
\* hash, next to reminders of the same exam for other days with other hashes
C17_ReminderCreatedAgainSameHash ==
    /\ item.loop = "exam"
    /\ item.index = 2
    /\ item.call_ok
    /\ Cardinality(NewReminders) = 3
    /\ \E e1, e2, e3 \in Reminders :
          /\ e1.id # e2.id
          /\ e1 \notin NewReminders /\ e2 \in NewReminders
          /\ e1.parent_exam_hash = item.content_hash
          /\ e1.parent_exam_hash = e2.parent_exam_hash
          /\ e1.days_before = e2.days_before
          /\ e1.pronote_hash = e2.pronote_hash
          /\ e3.parent_exam_hash = e1.parent_exam_hash
          /\ e3.days_before # e1.days_before
          /\ e3.pronote_hash # e1.pronote_hash

-----------------------------------------------------------------------------
(* Overlapping runs: lambda_handler invoked again while a run is in its      *)
(* homework loop.  Both runs hold the list of the same snapshot and write to *)
(* the same calendar; pc, idx, counts, cal_authenticated, existing_event and *)
(* item are those of each run.  A step of a run is one remote call: the      *)
(* search of line 100, or the write of lines 110-141 that follows it.        *)

OverlappingRuns == 1..MaxInvocations

\* line 100: existing_event = calendar_client.event_exists_by_hash(content_hash)
OverlapSearch(r) ==
    /\ pc[r] = "search"
    /\ idx[r] <= Len(homework_list)
    /\ LET homework == homework_list[idx[r]]
           content_hash == homework.content_hash
           event_title == title_of(homework)
           seen == [ NoItem EXCEPT !.loop = "homework", !.index = idx[r],
                                   !.content_hash = content_hash,
                                   !.title = event_title,
                                   !.counts_before = counts[r],
                                   !.carried = { e \in calendar :
                                                   hash_matches(e, content_hash) } ]
       IN  IF missing_hash(content_hash)
           THEN /\ item' = [ item EXCEPT ![r] = [ seen EXCEPT !.decision = "NO_HASH" ] ]
                /\ idx' = [ idx EXCEPT ![r] = @ + 1 ]
                /\ UNCHANGED << pc, cal_authenticated, existing_event, run_log >>
           ELSE \/ \* authenticate raises (line 433); caught at line 149
                   /\ ~cal_authenticated[r]
                   /\ item' = [ item EXCEPT ![r] = [ seen EXCEPT
                                                       !.auth_raised = TRUE,
                                                       !.decision = "ERROR" ] ]
                   /\ idx' = [ idx EXCEPT ![r] = @ + 1 ]
                   /\ run_log' = [ run_log EXCEPT !.item_errors = @ + 1,
                                                  !.faults = TRUE ]
                   /\ UNCHANGED << pc, cal_authenticated, existing_event >>
                \/ \E list_ok, edge \in BOOLEAN :
                   \E existing \in event_exists_by_hash(calendar, content_hash,
                                                        list_ok, edge) :
                     /\ cal_authenticated' = [ cal_authenticated EXCEPT ![r] = TRUE ]
                     /\ existing_event' = [ existing_event EXCEPT ![r] = existing ]
                     /\ item' = [ item EXCEPT ![r] = [ seen EXCEPT
                                     !.searches = 1,
                                     !.search_failed = ~list_ok,
                                     !.existing = existing ] ]
                     /\ pc' = [ pc EXCEPT ![r] = "write" ]
                     /\ run_log' = [ run_log EXCEPT !.search_calls = @ + 1,
                                                    !.faults = @ \/ ~list_ok ]
                     /\ UNCHANGED idx
    /\ UNCHANGED << config, today, portal, periods, calendar, next_id,
                    invocations, pronote_client, homework_list, exams_list,
                    counts, error, response, history >>

\* lines 102-147: the branch taken on existing_event, and its remote call
OverlapWrite(r) ==
    /\ pc[r] = "write"
    /\ \E write_ok \in BOOLEAN :
         LET homework == homework_list[idx[r]]
             content_hash == homework.content_hash
             event_title == title_of(homework)
             decision == decide(existing_event[r], event_title)
         IN  /\ calendar' =
                  IF decision = "CREATE" /\ write_ok
                  THEN insert(calendar,
                              create_event(next_id, event_title, homework.due_date,
                                           content_hash, homework.assignment_type))
                  ELSE IF decision = "UPDATE" /\ write_ok
                  THEN update_event(calendar,
                                    (CHOOSE e \in existing_event[r] : TRUE).id,
                                    event_title, homework.due_date, content_hash,
                                    homework.assignment_type)
                  ELSE calendar
             /\ next_id' = IF decision = "CREATE" /\ write_ok
                           THEN next_id + 1 ELSE next_id
             /\ counts' =
                  [ counts EXCEPT
                      ![r].events_created =
                          IF decision = "CREATE" /\ write_ok THEN @ + 1 ELSE @,
                      ![r].events_updated =
                          IF decision = "UPDATE" /\ write_ok THEN @ + 1 ELSE @,
                      ![r].events_skipped =
                          IF decision = "SKIP" THEN @ + 1 ELSE @ ]
             /\ item' = [ item EXCEPT
                            ![r].decision = decision,
                            ![r].call = CASE decision = "CREATE" -> "insert"
                                          [] decision = "UPDATE" -> "update"
                                          [] OTHER -> "none",
                            ![r].call_ok = write_ok /\ decision # "SKIP",
                            ![r].calendar_before = calendar ]
             /\ run_log' =
                  [ run_log EXCEPT
                      !.processed = @ + 1,
                      !.faults = @ \/ (~write_ok /\ decision # "SKIP"),
                      !.insert_calls = IF decision = "CREATE" THEN @ + 1 ELSE @,
                      !.update_calls = IF decision = "UPDATE" THEN @ + 1 ELSE @,
                      !.created = IF decision = "CREATE" /\ write_ok
                                  THEN Append(@, content_hash) ELSE @ ]
    /\ existing_event' = [ existing_event EXCEPT ![r] = { } ]
    /\ idx' = [ idx EXCEPT ![r] = @ + 1 ]
    /\ pc' = [ pc EXCEPT ![r] = "search" ]
    /\ UNCHANGED << config, today, portal, periods, invocations, pronote_client,
                    cal_authenticated, homework_list, exams_list, error,
                    response, history >>

\* the homework loop of run r is exhausted
OverlapEndLoop(r) ==
    /\ pc[r] = "search"
    /\ idx[r] > Len(homework_list)
    /\ pc' = [ pc EXCEPT ![r] = "respond" ]
    /\ UNCHANGED << config, today, portal, periods, calendar, next_id,
                    invocations, pronote_client, cal_authenticated,
                    homework_list, exams_list, idx, counts, error, response,
                    existing_event, item, run_log, history >>

\* both runs stand at line 90 with the list of the same snapshot; exam sync is
\* off, so that line 78 is not executed
InitOverlap ==
    /\ config \in { c \in LoopConfigs : ~c.exam_sync_enabled }
    /\ today = 0
    /\ portal \in Snapshots
    /\ periods = << >>
    /\ calendar = { }
    /\ next_id = 1
    /\ pc = [ r \in OverlappingRuns |-> "search" ]
    /\ invocations = MaxInvocations
    /\ pronote_client = [ NoClient EXCEPT !.bound = TRUE,
                                          !.authenticated = TRUE,
                                          !.client = TRUE ]
    /\ cal_authenticated = [ r \in OverlappingRuns |-> FALSE ]
    /\ homework_list = get_homework(portal, config.sync_days_ahead)
    /\ exams_list = << >>
    /\ idx = [ r \in OverlappingRuns |-> 1 ]
    /\ counts = [ r \in OverlappingRuns |-> NoCounts ]
    /\ error = "none"
    /\ response = { }
    /\ existing_event = [ r \in OverlappingRuns |-> { } ]
    /\ item = [ r \in OverlappingRuns |-> NoItem ]
    /\ run_log = NewRunLog({ })
    /\ history = << >>

NextOverlap ==
    \E r \in OverlappingRuns :
        \/ OverlapSearch(r)
        \/ OverlapWrite(r)
        \/ OverlapEndLoop(r)

SpecOverlap == InitOverlap /\ [][NextOverlap]_vars

\* the events of the calendar that carry a hash
WithHash(cal, content_hash) == { e \in cal : hash_matches(e, content_hash) }

\* C18: nothing stands between a run's search and its write: a run whose search
\* succeeded and found no event with the hash creates an event with that hash
\* when its insert succeeds, also when another run has created one in the
\* meantime, so that the calendar holds one event per successful CREATE of a
\* hash, by whichever run.
C18_CreateFollowsOwnSearch ==
    /\ \A r \in OverlappingRuns :
          ( /\ item[r].call = "insert"
            /\ item[r].call_ok
            /\ pc[r] # "write" )
          => /\ item[r].existing = { }
             /\ Cardinality(WithHash(calendar, item[r].content_hash))
                  >= Cardinality(WithHash(item[r].calendar_before,
                                          item[r].content_hash)) + 1
    /\ \A r \in OverlappingRuns :
          ( /\ item[r].searches = 1
            /\ ~item[r].search_failed
            /\ item[r].carried = { }
            /\ pc[r] # "write" )
          => item[r].call = "insert"
    /\ \A h \in { e.pronote_hash : e \in calendar } :
          Cardinality(WithHash(calendar, h)) = Occurrences(run_log.created, h)

\* C18 witness: both runs searched for the hash of the same record, each search
\* succeeded and found no event, both inserts succeeded, and the calendar holds
\* two events with that hash
C18_BothRunsCreateSameHash ==
    /\ ~run_log.faults
    /\ \E r1, r2 \in OverlappingRuns :
          /\ r1 # r2
          /\ item[r1].index = item[r2].index
          /\ item[r1].content_hash = item[r2].content_hash
          /\ \A r \in { r1, r2 } : /\ item[r].searches = 1
                                   /\ ~item[r].search_failed
                                   /\ item[r].carried = { }
                                   /\ item[r].call = "insert"
                                   /\ item[r].call_ok
          /\ Cardinality(WithHash(calendar, item[r1].content_hash)) = 2

-----------------------------------------------------------------------------
(* lambda_handler with SYNC_DAYS_AHEAD set above the 90 days of the search   *)
(* window, against a portal that holds homework due beyond the window.       *)

FarDaysAhead == 100

\* homework due beyond the search window, and on its last day
FarHomeworkRecords ==
    { RawHomework(subject_M, text_ds, << today + FarDaysAhead >>),
      RawHomework(subject_M, text_ex, << today + FarDaysAhead >>),
      RawHomework(subject_M, text_ds, << today + SearchWindowDays >>) }

FarSnapshots == ListsUpTo(FarHomeworkRecords, MaxHomework) \ { << >> }

InitWindow ==
    /\ config \in { c \in Configs : /\ c.environ = FullEnvironment
                                    /\ c.study_reminders_enabled
                                    /\ c.sync_days_ahead = WideSyncDaysAhead }
    /\ today = 0
    /\ portal \in FarSnapshots
    /\ periods = << >>
    /\ calendar = { }
    /\ next_id = 1
    /\ pc = "idle"
    /\ invocations = 0
    /\ pronote_client = NoClient
    /\ cal_authenticated = FALSE
    /\ homework_list = << >>
    /\ exams_list = << >>
    /\ idx = 0
    /\ counts = NoCounts
    /\ error = "none"
    /\ response = { }
    /\ existing_event = { }
    /\ item = NoItem
    /\ run_log = NewRunLog({ })
    /\ history = << >>

SpecWindow == InitWindow /\ [][Next]_vars

\* the events whose start lies more than 90 days from today
OutsideWindow(events) ==
    { e \in events : \/ e.start < today - 90
                     \/ e.start > today + 90 }

\* C19: a search that succeeds returns only an event that starts within 90 days
\* of today; when every event with the searched hash starts outside that span the
\* search reports none and the record is processed to CREATE, so a homework
\* record due more than 90 days ahead is processed to CREATE by every run whose
\* search succeeds, whether or not the calendar holds its event.
C19_EventOutsideWindowIsNotFound ==
    ( /\ item.loop = "homework"
      /\ item.searches = 1
      /\ ~item.search_failed )
    => /\ item.existing \cap OutsideWindow(item.calendar_before) = { }
       /\ item.carried \subseteq OutsideWindow(item.calendar_before)
             => /\ item.existing = { }
                /\ item.decision = "CREATE"
                /\ item.call = "insert"
       /\ item.carried \ OutsideWindow(item.calendar_before) # { }
             /\ (\A e \in item.carried : e.start # today + 90)
             => item.existing # { }
       /\ homework_list[item.index].due_date > today + 90
             => item.decision = "CREATE"

\* C19 witness: with a sync window of more than 90 days, the second run searched
\* the hash of homework due in 100 days, whose event the first run had created;
\* the search succeeded and found nothing, and the run created a second event
C19_FarHomeworkCreatedAgain ==
    /\ config.sync_days_ahead > 90
    /\ Len(history) = 1
    /\ ~history[1].faults
    /\ ~run_log.faults
    /\ item.loop = "homework"
    /\ item.searches = 1
    /\ ~item.search_failed
    /\ item.carried # { }
    /\ item.carried \cap run_log.calendar_at_start # { }
    /\ \A e \in item.carried : e.start > today + 90
    /\ item.decision = "CREATE"
    /\ item.call_ok
    /\ Cardinality(WithHash(calendar, item.content_hash)) >= 2

-----------------------------------------------------------------------------
(* _standardize_homework and _generate_content_hash on pairs of portal       *)
(* records that differ in case, padding, date, description and in a field    *)
(* the hash does not read.                                                   *)

MaxDescriptionLen == 2

subject_m_padded == << " ", "m" >>
subject_N == << "N" >>

HashSubjects == { subject_M, subject_m_padded, subject_N }

RECURSIVE TextsUpTo(_, _)
TextsUpTo(alphabet, n) ==
    IF n = 0 THEN { << >> }
    ELSE LET shorter == TextsUpTo(alphabet, n - 1)
         IN  shorter \cup { Append(t, c) : t \in shorter, c \in alphabet }

HashDescriptions == TextsUpTo({ "d", "D", " ", "s" }, MaxDescriptionLen)

\* portal records with the attribute done, which _standardize_homework copies
HashRecords ==
    { [ subject |-> subject, description |-> description,
        date |-> << date >>, done |-> done ] :
        subject \in HashSubjects, description \in HashDescriptions,
        date \in { today + 1, today + 2 }, done \in BOOLEAN }

\* the loop of get_homework over raw_homework (lines 328-342) on two records
StandardizePair ==
    /\ pc = "standardize"
    /\ homework_list' = standardize_all(portal)
    /\ pc' = "standardized"
    /\ UNCHANGED << config, today, portal, periods, calendar, next_id,
                    invocations, pronote_client, cal_authenticated, exams_list,
                    idx, counts, error, response, existing_event, item,
                    run_log, history >>

InitHash ==
    /\ config \in { c \in LoopConfigs : c.exam_sync_enabled
                                         /\ c.study_reminders_enabled }
    /\ today = 0
    /\ portal \in { << a, b >> : a \in HashRecords, b \in HashRecords }
    /\ periods = << >>
    /\ calendar = { }
    /\ next_id = 1
    /\ pc = "standardize"
    /\ invocations = 0
    /\ pronote_client = [ NoClient EXCEPT !.bound = TRUE,
                                          !.authenticated = TRUE,
                                          !.client = TRUE ]
    /\ cal_authenticated = FALSE
    /\ homework_list = << >>
    /\ exams_list = << >>
    /\ idx = 0
    /\ counts = NoCounts
    /\ error = "none"
    /\ response = { }
    /\ existing_event = { }
    /\ item = NoItem
    /\ run_log = NewRunLog({ })
    /\ history = << >>

NextHash == StandardizePair

SpecHash == InitHash /\ [][NextHash]_vars

\* two characters that are equal or the two cases of one letter
SameLetter(c1, c2) ==
    \/ c1 = c2
    \/ \E i \in 1..Len(UPPER) : { c1, c2 } = { UPPER[i], LOWER[i] }

\* two texts that differ in the case of letters only
CaseVariant(x, y) ==
    /\ Len(x) = Len(y)
    /\ \A i \in 1..Len(x) : SameLetter(x[i], y[i])

\* the texts x is a whitespace padding of
Unpadded(x) ==
    { SubSeq(x, p[1], p[2]) :
        p \in { q \in (1..(Len(x) + 1)) \X (0..Len(x)) :
                  /\ q[1] <= q[2] + 1
                  /\ \A k \in (1..Len(x)) \ (q[1]..q[2]) :
                        x[k] \in Whitespace } }

\* two texts that differ in case and whitespace padding only
SameText(x, y) ==
    \E cx \in Unpadded(x), cy \in Unpadded(y) : CaseVariant(cx, cy)

\* a text in the form the hash reads: no padding, no upper-case letter
Normalized(x) ==
    /\ x # << >> => x[1] \notin Whitespace /\ x[Len(x)] \notin Whitespace
    /\ \A i \in 1..Len(x) : \A k \in 1..Len(UPPER) : x[i] # UPPER[k]

\* x with its k-th character removed
Without(x, k) == SubSeq(x, 1, k - 1) \o SubSeq(x, k + 1, Len(x))

\* two texts one character apart: one replaced, one inserted or one removed
OneCharacterApart(x, y) ==
    \/ /\ Len(x) = Len(y)
       /\ Cardinality({ i \in 1..Len(x) : x[i] # y[i] }) = 1
    \/ \E k \in 1..Len(x) : Without(x, k) = y
    \/ \E k \in 1..Len(y) : Without(y, k) = x

\* C20: the content hash of a homework record is the same for two records whose
\* subjects and descriptions differ in case and whitespace padding only and
\* whose dates are equal, whatever their other fields are; it differs between
\* two records that differ in the date by one day only, and between two records
\* that differ only in one character of the trimmed lower-cased description.
C20_HashReadsNormalizedTriple ==
    pc = "standardized" =>
      LET a == portal[1]
          b == portal[2]
          hash_a == homework_list[1].content_hash
          hash_b == homework_list[2].content_hash
      IN  /\ Len(homework_list) = 2
          /\ hash_a # None /\ hash_b # None
          /\ ( /\ SameText(a.subject, b.subject)
               /\ a.date = b.date
               /\ SameText(a.description, b.description) )
             => hash_a = hash_b
          /\ ( /\ a.subject = b.subject
               /\ a.description = b.description
               /\ a.date[1] - b.date[1] \in { 1, -1 } )
             => hash_a # hash_b
          /\ ( /\ a.subject = b.subject
               /\ a.date = b.date
               /\ Normalized(a.description) /\ Normalized(b.description)
               /\ OneCharacterApart(a.description, b.description) )
             => hash_a # hash_b

\* C20 witness: two records whose subjects and descriptions differ in case and
\* padding and that differ in the attribute done got the same content hash
C20_CaseAndPaddingSameHash ==
    /\ pc = "standardized"
    /\ portal[1].subject = subject_M
    /\ portal[2].subject = subject_m_padded
    /\ portal[1].description = << "d", "s" >>
    /\ portal[2].description = << "D", "s" >>
    /\ portal[1].done # portal[2].done
    /\ portal[1].date = portal[2].date
    /\ homework_list[1].content_hash = homework_list[2].content_hash

\* C20 as stated: the hash differs between two records that differ only in one
\* character of the description, whichever character it is
C20_AnyCharacterChangesHash ==
    pc = "standardized" =>
      LET a == portal[1]
          b == portal[2]
      IN  ( /\ a.subject = b.subject
            /\ a.date = b.date
            /\ OneCharacterApart(a.description, b.description) )
          => homework_list[1].content_hash # homework_list[2].content_hash

-----------------------------------------------------------------------------
(* Properties of the exam records get_exams returns.                         *)

\* the fields the hashes normalize
Triple(subject, date, description) ==
    << lower(strip(subject)), date, lower(strip(description)) >>

ExamTriple(exam) == Triple(exam.subject, exam.exam_date, exam.description)

\* get_exams has returned and nothing it read failed
ExamsFetched ==
    /\ pc \in { "client_historical", "client_close", "client_done" }
    /\ error = "none"
    /\ run_log.failed_reads = { }

\* C21 (amended): the source type is part of the exam hash.  Two records of
\* the list get_exams returns have the same hash only if they are one record;
\* records of different source types have different hashes also when subject,
\* date and description are equal, and get_exams keeps both: every dated
\* evaluation of a period it read and every test-classified homework record of
\* the range has its record in the list.
C21_ProvenanceIsPartOfExamHash ==
    /\ \A i, j \in 1..Len(exams_list) :
          /\ exams_list[i].content_hash = exams_list[j].content_hash => i = j
          /\ exams_list[i].data_source # exams_list[j].data_source
               => exams_list[i].content_hash # exams_list[j].content_hash
    /\ ExamsFetched =>
          LET range == date_range(-HistoricalDays)
              in_range(date) == /\ date # None
                                /\ range.start_date <= date[1]
                                /\ date[1] <= range.end_date
          IN  /\ \A k \in periods_read(periods, range) :
                    \A n \in 1..Len(periods[k].evaluations) :
                      LET evaluation == periods[k].evaluations[n]
                      IN  in_range(evaluation.date) =>
                            \E i \in 1..Len(exams_list) :
                              /\ exams_list[i].data_source = "evaluation"
                              /\ ExamTriple(exams_list[i])
                                   = Triple(evaluation.subject, evaluation.date[1],
                                            evaluation.name)
              /\ \A n \in 1..Len(portal) :
                    ( /\ in_range(portal[n].date)
                      /\ determine_assignment_type(strip(portal[n].description))
                           = "test" ) =>
                      \E i \in 1..Len(exams_list) :
                        /\ exams_list[i].data_source = "homework_test"
                        /\ ExamTriple(exams_list[i])
                             = Triple(portal[n].subject, portal[n].date[1],
                                      portal[n].description)

\* C21 witness: get_exams returned an evaluation-derived and a homework-derived
\* record with equal subject, date and description, under two hashes
C21_SameTestFromBothSources ==
    /\ ExamsFetched
    /\ \E i, j \in 1..Len(exams_list) :
          /\ exams_list[i].data_source = "evaluation"
          /\ exams_list[j].data_source = "homework_test"
          /\ ExamTriple(exams_list[i]) = ExamTriple(exams_list[j])
          /\ exams_list[i].content_hash # exams_list[j].content_hash

\* C21 as stated: exam records with equal normalized subject, date and
\* description have one hash, and get_exams keeps one of them
C21_OneExamPerTriple ==
    \A i, j \in 1..Len(exams_list) :
        ExamTriple(exams_list[i]) = ExamTriple(exams_list[j])
          => /\ exams_list[i].content_hash = exams_list[j].content_hash
             /\ i = j

-----------------------------------------------------------------------------
(* Properties of the two loops on a record that is in both lists.            *)

\* the events written by the homework loop, and those written by the exam loop
HomeworkEvents(cal) == { e \in cal : e.assignment_type \in { "homework", "test" } }
ExamEvents(cal) == { e \in cal : e.assignment_type = "exam" }

\* C22: the hash of a homework record is the hash of no exam record: a search
\* of the homework loop returns no exam event and a search of the exam loop no
\* homework event.  An exam record derived from test-classified homework whose
\* homework event is in the calendar is therefore processed to CREATE unless an
\* exam event with its hash exists, and the calendar then holds a homework
\* event and an exam event for the record.
C22_HomeworkAndExamHashesDiffer ==
    /\ \A i \in 1..Len(homework_list), j \in 1..Len(exams_list) :
          /\ homework_list[i].content_hash # None
          /\ exams_list[j].content_hash # None
          => homework_list[i].content_hash # exams_list[j].content_hash
    /\ item.loop = "homework" => item.carried \cap ExamEvents(calendar) = { }
    /\ item.loop = "exam" => item.carried \cap HomeworkEvents(calendar) = { }
    /\ ( /\ item.loop = "exam"
         /\ item.searches = 1
         /\ ~item.search_failed
         /\ exams_list[item.index].data_source = "homework_test"
         /\ item.carried \cap ExamEvents(item.calendar_before) = { }
         /\ \E i \in 1..Len(homework_list) :
               /\ homework_list[i].assignment_type = "test"
               /\ Triple(homework_list[i].subject, homework_list[i].due_date,
                         homework_list[i].description)
                    = ExamTriple(exams_list[item.index])
               /\ \E e \in HomeworkEvents(item.calendar_before) :
                     e.pronote_hash = homework_list[i].content_hash )
       => /\ item.decision = "CREATE"
          /\ item.call_ok =>
                \E e \in ExamEvents(calendar) :
                  /\ e.pronote_hash = item.content_hash
                  /\ e.start = exams_list[item.index].exam_date

\* C22 witness: a run without a failed call created the homework event of a
\* test-classified record and then, for the exam record derived from it, an
\* exam event on the same day
C22_TestHomeworkGetsTwoEvents ==
    /\ ~run_log.faults
    /\ item.loop = "exam"
    /\ item.decision = "CREATE"
    /\ item.call_ok
    /\ exams_list[item.index].data_source = "homework_test"
    /\ \E i \in 1..Len(homework_list) :
          /\ homework_list[i].assignment_type = "test"
          /\ homework_list[i].subject = exams_list[item.index].subject
          /\ homework_list[i].description = exams_list[item.index].description
          /\ homework_list[i].due_date = exams_list[item.index].exam_date
          /\ \E h \in HomeworkEvents(calendar), x \in ExamEvents(calendar) :
                /\ h.pronote_hash = homework_list[i].content_hash
                /\ x.pronote_hash = item.content_hash
                /\ h.start = x.start
                /\ h.id # x.id

-----------------------------------------------------------------------------
(* _determine_assignment_type on descriptions put together from keywords of  *)
(* the three lists, in both cases, and other text.                           *)

MaxFragments == 3

Fragments ==
    { << "v","o","t","e" >>, << "F","o","r","m" >>, << "t","e","s","t" >>,
      << "Q","U","I","Z" >>, << "d","s" >>, << "t","r","a","v","a","i","l" >>,
      << "x" >>, << " " >> }

RECURSIVE FragmentTexts(_)
FragmentTexts(n) ==
    IF n = 0 THEN { << >> }
    ELSE LET shorter == FragmentTexts(n - 1)
         IN  shorter \cup { t \o f : t \in shorter, f \in Fragments }

InitClassify ==
    /\ config \in { c \in LoopConfigs : c.exam_sync_enabled
                                         /\ c.study_reminders_enabled }
    /\ today = 0
    /\ portal \in { << RawHomework(subject_M, description, << today + 1 >>) >> :
                       description \in FragmentTexts(MaxFragments) }
    /\ periods = << >>
    /\ calendar = { }
    /\ next_id = 1
    /\ pc = "standardize"
    /\ invocations = 0
    /\ pronote_client = [ NoClient EXCEPT !.bound = TRUE,
                                          !.authenticated = TRUE,
                                          !.client = TRUE ]
    /\ cal_authenticated = FALSE
    /\ homework_list = << >>
    /\ exams_list = << >>
    /\ idx = 0
    /\ counts = NoCounts
    /\ error = "none"
    /\ response = { }
    /\ existing_event = { }
    /\ item = NoItem
    /\ run_log = NewRunLog({ })
    /\ history = << >>

SpecClassify == InitClassify /\ [][NextHash]_vars

\* the description holds a keyword of the list, in whatever case
HasKeyword(keywords, description) ==
    \E k \in 1..Len(keywords) :
      \E i \in 1..Len(description) :
        /\ i + Len(keywords[k]) - 1 <= Len(description)
        /\ CaseVariant(SubSeq(description, i, i + Len(keywords[k]) - 1),
                       keywords[k])

\* C23: a description that holds an administrative keyword is classified
\* homework, also when it holds a test keyword; without an administrative
\* keyword, one that holds a test keyword is classified test; every other one is
\* classified homework.  The result is test exactly when a test keyword is
\* present and no administrative keyword is, and it is homework or test.
C23_ClassificationOrder ==
    pc = "standardized" =>
      LET description == homework_list[1].description
          assignment_type == homework_list[1].assignment_type
          administrative == HasKeyword(non_test_keywords, description)
          test == HasKeyword(test_keywords, description)
      IN  /\ Len(homework_list) = 1
          /\ assignment_type \in { "homework", "test" }
          /\ administrative => assignment_type = "homework"
          /\ ~administrative /\ test => assignment_type = "test"
          /\ ~administrative /\ ~test => assignment_type = "homework"
          /\ assignment_type = "test" <=> test /\ ~administrative

\* C23 witness: a description with a test keyword and, after it, an
\* administrative keyword was classified homework
C23_AdministrativeKeywordWins ==
    /\ pc = "standardized"
    /\ portal[1].description
          = << "t","e","s","t" >> \o << " " >> \o << "F","o","r","m" >>
    /\ homework_list[1].assignment_type = "homework"

-----------------------------------------------------------------------------
(* Properties of the homework list of a run of lambda_handler.               *)

\* the run has fetched its homework list and no exception is on its way
HomeworkFetched ==
    pc \in { "fetch_exams", "homework_loop", "exam_loop", "respond" }

\* the positions of the portal's records that carry a date of the sync range
DatedInRange ==
    { n \in 1..Len(portal) :
        /\ portal[n].date # None
        /\ today <= portal[n].date[1]
        /\ portal[n].date[1] <= today + config.sync_days_ahead }

\* the position in the portal of the i-th dated record
NthDated(i) ==
    CHOOSE n \in DatedInRange :
      Cardinality({ m \in DatedInRange : m < n }) = i - 1

\* C24: a portal record without a date is left out of the list get_homework
\* returns: the fetch succeeds, the list holds the dated records of the range,
\* one each and in the portal's order, and the loop, its counters and the
\* total_homework of the response count the dated records only.
C24_UndatedHomeworkIsLeftOut ==
    HomeworkFetched =>
      /\ Len(homework_list) = Cardinality(DatedInRange)
      /\ \A i \in 1..Len(homework_list) :
            /\ homework_list[i].subject = portal[NthDated(i)].subject
            /\ homework_list[i].due_date = portal[NthDated(i)].date[1]
            /\ homework_list[i].detailed_description
                 = portal[NthDated(i)].description
      /\ run_log.processed <= Cardinality(DatedInRange)
      /\ counts.events_created + counts.events_updated + counts.events_skipped
           <= Cardinality(DatedInRange)
      /\ success_response.total_homework = Cardinality(DatedInRange)

\* C24 witness: the portal held a record without a date before a dated one; the
\* run fetched a list of one record and created its event
C24_DatedRecordAfterUndatedOne ==
    /\ pc = "respond"
    /\ Len(portal) = 2
    /\ portal[1].date = None
    /\ portal[2].date # None
    /\ Len(homework_list) = 1
    /\ homework_list[1].subject = portal[2].subject
    /\ run_log.processed = 1
    /\ counts.events_created = 1
    /\ success_response.total_homework = 1

\* the positions of the portal's records that the secondary pass of get_exams
\* reads and that are classified test
TestHomework ==
    { n \in 1..Len(portal) :
        /\ portal[n].date # None
        /\ today - HistoricalDays <= portal[n].date[1]
        /\ portal[n].date[1] <= today
        /\ \E hw \in standardize_homework(portal[n]) :
              hw.assignment_type = "test" }

NthTestHomework(i) ==
    CHOOSE n \in TestHomework :
      Cardinality({ m \in TestHomework : m < n }) = i - 1

\* C25: when the homework can be read again, get_test_events_from_homework
\* returns one record for each homework record classified test, in their order,
\* and none for the others; the record carries the subject and the description
\* of the homework record, its due date as exam date, the teacher
\* 'Unknown Teacher', the coefficient 1, the type exam and the source
\* homework_test.
C25_OneTestEventPerTestHomework ==
    ( /\ pc \in { "client_historical", "client_close", "client_done" }
      /\ error = "none"
      /\ "homework_reread" \notin run_log.failed_reads ) =>
      /\ Len(run_log.test_events) = Cardinality(TestHomework)
      /\ \A i \in 1..Len(run_log.test_events) :
            LET exam_event == run_log.test_events[i]
                raw == portal[NthTestHomework(i)]
            IN  /\ exam_event.subject = raw.subject
                /\ exam_event.description = strip(raw.description)
                /\ exam_event.detailed_description = raw.description
                /\ exam_event.exam_date = raw.date[1]
                /\ exam_event.teacher = "Unknown Teacher"
                /\ exam_event.coefficient = 1
                /\ exam_event.assignment_type = "exam"
                /\ exam_event.data_source = "homework_test"

\* C25 witness: of an exercise and a test, both due yesterday, the pass made
\* one exam record, that of the test
C25_TestConvertedExerciseNot ==
    /\ pc = "client_historical"
    /\ portal = << RawHomework(subject_M, text_ex, << today - 1 >>),
                   RawHomework(subject_M, text_ds, << today - 1 >>) >>
    /\ Len(run_log.test_events) = 1
    /\ run_log.test_events[1].description = text_ds
    /\ run_log.test_events[1].exam_date = today - 1
    /\ run_log.test_events[1].data_source = "homework_test"

\* the positions of the combined list of get_exams that hold the first record of
\* their content hash
FirstSeen ==
    { n \in 1..Len(run_log.all_exams) :
        \A m \in 1..(n - 1) :
          run_log.all_exams[m].content_hash # run_log.all_exams[n].content_hash }

NthFirstSeen(i) ==
    CHOOSE n \in FirstSeen : Cardinality({ m \in FirstSeen : m < n }) = i - 1

-----------------------------------------------------------------------------
(* Properties of the counters of the response.                               *)

-----------------------------------------------------------------------------
(* Properties of the events of the calendar.                                 *)

\* C28: every event of the calendar carries the source pronote, a content hash
\* that is not empty, an assignment type and the version marker 2.0; the event a
\* successful insert or update of an iteration wrote carries the content hash
\* of the record of that iteration; and an event keeps its content hash for as
\* long as it exists, through every update.
C28_EventsCarryTheirAnnotations ==
    /\ \A e \in calendar :
          /\ e.source = "pronote"
          /\ e.pronote_hash # None
          /\ e.assignment_type
               \in { "homework", "test", "exam", "study_reminder" }
          /\ e.sync_version = "2.0"
    /\ item.call_ok =>
          \E e \in calendar :
            /\ e.pronote_hash = item.content_hash
            /\ item.loop = "homework" => e.summary = item.title
            /\ item.call = "insert" => e \notin item.calendar_before
            /\ item.call = "update" => e.id \in { x.id : x \in item.existing }
    /\ \A old \in item.calendar_before :
          \E e \in calendar : /\ e.id = old.id
                               /\ e.pronote_hash = old.pronote_hash

\* C28 witness: an iteration of the homework loop updated the event of its
\* record: the event has the new title and the content hash it had before
C28_UpdatedEventKeepsHash ==
    /\ item.loop = "homework"
    /\ item.call = "update"
    /\ item.call_ok
    /\ \E old \in item.existing, e \in calendar :
          /\ e.id = old.id
          /\ e.summary # old.summary
          /\ e.summary = item.title
          /\ e.pronote_hash = old.pronote_hash
          /\ e.pronote_hash = item.content_hash
          /\ e.source = "pronote"
          /\ e.sync_version = "2.0"

-----------------------------------------------------------------------------
(* Termination of lambda_handler: the statements of a run are executed one   *)
(* after the other and every remote call returns or raises, so a step of a   *)
(* run that can be taken is taken; when the handler is invoked is up to its  *)
(* caller.                                                                   *)

RunStep ==
    \/ FetchHomework
    \/ FetchExams
    \/ ProcessHomework
    \/ EndHomeworkLoop
    \/ PrepareResponse
    \/ HandleException
    \/ Finally

InitLive ==
    /\ Init
    /\ ~config.dry_run
    /\ config.environ
         \in { FullEnvironment,
               [ FullEnvironment EXCEPT !["GOOGLE_CALENDAR_ID"] = << >> ] }

NextLive == Invoke \/ RunStep

SpecLive == InitLive /\ [][NextLive]_vars /\ WF_vars(RunStep)

\* the k-th returned run returned one result, a success or a failure result
ReturnedResult(k) ==
    /\ Cardinality(history[k].response) = 1
    /\ \A r \in history[k].response : r.statusCode \in { 200, 500 }

\* C29: every run that was started returns, and it returns one result, with
\* statusCode 200 or 500; while the homework loop runs, the records before the
\* loop's position have been processed once each and the others not yet.
C29_EveryRunReturnsAResult ==
    /\ [](\A k \in 1..Len(history) : ReturnedResult(k))
    /\ [](/\ run_log.processed <= Len(homework_list) + Len(exams_list)
          /\ pc = "homework_loop" => run_log.processed = idx - 1)
    /\ \A k \in 0..(MaxInvocations - 1) :
          (pc # "idle" /\ Len(history) = k) ~> (pc = "idle" /\ Len(history) = k + 1)

\* C29 witness: two runs have returned; the first processed two records and
\* created an event, and both returned a failure result
C29_TwoRunsReturned ==
    /\ pc = "idle"
    /\ Len(history) = 2
    /\ ReturnedResult(1) /\ ReturnedResult(2)
    /\ Len(history[1].created) = 2
    /\ \A r \in history[1].response : r.statusCode = 500

-----------------------------------------------------------------------------
(* Properties of a run with exam sync disabled.                              *)

\* C30: a run with exam sync disabled that read its settings and whose calls
\* all succeeded does not call the exam fetch, creates no exam event and no
\* reminder event, and returns a success result with exam_events_created = 0,
\* reminder_events_created = 0 and total_exams = 0.
C30_ExamSyncOffReportsZero ==
    ( /\ pc = "finally"
      /\ ~config.exam_sync_enabled
      /\ config.environ = FullEnvironment
      /\ ~run_log.faults ) =>
      /\ exams_list = << >>
      /\ ExamEvents(calendar) \cup Reminders = { }
      /\ \A r \in response :
            /\ r.statusCode = 200
            /\ r.exam_events_created = 0
            /\ r.reminder_events_created = 0
            /\ r.total_exams = 0

-----------------------------------------------------------------------------
(* Properties of a failed run and of the destination it leaves.              *)

\* C31: a run of lambda_handler that returns a failure result has made no
\* create call and no update call, and the calendar is as it was when the run
\* started.
C31_FailedRunLeavesDestinationUnchanged ==
    ( pc = "finally" /\ \E r \in response : r.statusCode = 500 )
    => /\ run_log.insert_calls = 0
       /\ run_log.update_calls = 0
       /\ calendar = run_log.calendar_at_start

\* the event of the calendar with the id of the event a search returned
Stored(found) == { e \in calendar : \E f \in found : e.id = f.id }

\* C32: a successful update of a homework event leaves the event with its
\* content hash and with the incoming title, changes no other event and adds
\* one to events_updated only; a failed update leaves the calendar and the
\* counters as they were.  When the next run starts with the same record and
\* its search returns that event, it decides SKIP after the successful update
\* and UPDATE after the failed one.
C32_UpdateThenSkipFailedUpdateAgain ==
    /\ ( item.loop = "homework" /\ item.decision = "UPDATE" )
       => IF item.call_ok
          THEN /\ \A e \in Stored(item.existing) :
                    /\ e.pronote_hash = item.content_hash
                    /\ e.summary = item.title
               /\ Cardinality(Stored(item.existing)) = 1
               /\ calendar \ Stored(item.existing)
                    = item.calendar_before \ item.existing
               /\ counts = [ item.counts_before EXCEPT !.events_updated = @ + 1 ]
          ELSE /\ calendar = item.calendar_before
               /\ counts = item.counts_before
    /\ \A k \in 1..Len(history) :
         LET last == history[k].last_item
         IN  ( /\ Len(history) = k
               /\ last.loop = "homework"
               /\ last.decision = "UPDATE"
               /\ item.loop = "homework"
               /\ item.index = 1
               /\ item.searches = 1
               /\ item.content_hash = last.content_hash
               /\ item.title = last.title
               /\ item.existing # { }
               /\ \A f \in item.existing : \E o \in last.existing : f.id = o.id )
             => item.decision = IF last.call_ok THEN "SKIP" ELSE "UPDATE"

\* the second run starts with the record whose event the first run updated
\* last, finds that event and skips the record
C32_SecondRunSkipsUpdatedRecord ==
    /\ Len(history) = 1
    /\ history[1].last_item.decision = "UPDATE"
    /\ history[1].last_item.call_ok
    /\ item.index = 1
    /\ item.content_hash = history[1].last_item.content_hash
    /\ item.title = history[1].last_item.title
    /\ item.decision = "SKIP"

-----------------------------------------------------------------------------
(* Properties of the exam loop on a record whose event exists.               *)

-----------------------------------------------------------------------------
(* Properties of the counters of a success result.                           *)

\* the relations between the counters of a result r of the running run
CountersAgree(r) ==
    /\ r.total_events_created = r.homework_events_created + r.exam_events_created
                                    + r.reminder_events_created
    /\ r.homework_events_created + r.homework_events_updated <= r.total_homework
    /\ r.exam_events_created <= r.total_exams
    /\ r.reminder_events_created <= ReminderDays * r.exam_events_created
    /\ r.homework_events_created + r.exam_events_created = Len(run_log.created)
    /\ r.reminder_events_created
         = Cardinality(Reminders \ run_log.calendar_at_start)

\* C34: in the result lines 215-237 put together, total_events_created is the
\* sum of homework_events_created, exam_events_created and
\* reminder_events_created; homework_events_created + homework_events_updated
\* <= total_homework; exam_events_created <= total_exams;
\* reminder_events_created <= 7 * exam_events_created; and the created counters
\* are the numbers of inserts that returned an event id.  The same holds of
\* every success result a run has returned.
C34_SuccessResultCountersAgree ==
    /\ pc = "respond" => CountersAgree(success_response)
    /\ \A r \in response : r.statusCode = 200 => CountersAgree(r)

\* the response is put together after a run that created a homework event, an
\* exam event and reminders
C34_ResponseAfterAllKindsCreated ==
    /\ pc = "respond"
    /\ counts.events_created > 0
    /\ counts.exam_events_created > 0
    /\ counts.reminder_events_created > 1

-----------------------------------------------------------------------------
(* The exam loop over runs that follow one another: each run stands at line  *)
(* 90 with an empty homework list and the exam records get_exams returned    *)
(* (no two with the same hash); STUDY_REMINDERS_ENABLED may be set           *)
(* differently for the next run.                                             *)

\* exam records dated two and three days ahead
ExamRunRecords ==
    { e \in LoopExamRecords : /\ e.content_hash # None
                              /\ e.exam_date \in { today + 2, today + 3 } }

ExamRunLists ==
    { l \in ListsUpTo(ExamRunRecords, MaxExams) :
        /\ l # << >>
        /\ \A i, j \in 1..Len(l) :
             l[i].content_hash = l[j].content_hash => i = j }

\* lines 48-89 of the next run: Config is read again, the clients are built
\* and the lists are fetched
EnterLoopsAgain ==
    /\ pc = "idle"
    /\ invocations < MaxInvocations
    /\ Len(history) > 0
    /\ \E enabled \in BOOLEAN :
         config' = [ config EXCEPT !.study_reminders_enabled = enabled ]
    /\ exams_list' \in ExamRunLists
    /\ pronote_client' = [ NoClient EXCEPT !.bound = TRUE,
                                           !.authenticated = TRUE,
                                           !.client = TRUE ]
    /\ pc' = "homework_loop"
    /\ idx' = 1
    /\ UNCHANGED << existing_event, today, portal, periods, calendar, next_id,
                    invocations, cal_authenticated, homework_list, counts,
                    error, response, item, run_log, history >>

InitExamRuns ==
    /\ InitLoops
    /\ config.exam_sync_enabled
    /\ homework_list = << >>
    /\ exams_list \in ExamRunLists

NextExamRuns ==
    \/ EndHomeworkLoop
    \/ ProcessExam
    \/ EndExamLoop
    \/ PrepareResponse
    \/ HandleException
    \/ Finally
    \/ EnterLoopsAgain

SpecExamRuns == InitExamRuns /\ [][NextExamRuns]_vars

\* the reminder events of cal whose parent is the exam with hash h
RemindersOf(cal, h) ==
    { e \in cal : e.assignment_type = "study_reminder" /\ e.parent_exam_hash = h }

CreatedIn(created, h) == \E i \in 1..Len(created) : created[i] = h

\* C35: when a run comes to an exam record whose event an earlier run created
\* and its search returns the event, it makes the one search for the exam's
\* hash, attempts no reminder insert and leaves the reminders of that exam as
\* the earlier runs left them, also when some of them are missing; and a run
\* attempts reminders for a hash only when it has created the exam event of
\* that hash itself, so that two runs attempt them for one hash only if the
\* later one did not find the event.
C35_RemindersOnlyInCreatingRun ==
    /\ \A k \in 1..Len(history) :
         ( /\ item.loop = "exam"
           /\ CreatedIn(history[k].created, item.content_hash)
           /\ item.existing # { } )
         => /\ item.searches = 1
            /\ item.attempted = { }
            /\ counts.reminder_events_created
                  = item.counts_before.reminder_events_created
            /\ RemindersOf(calendar, item.content_hash)
                  = RemindersOf(history[Len(history)].calendar, item.content_hash)
    /\ \A h \in run_log.reminders_for : CreatedIn(run_log.created, h)
    /\ \A k \in 1..Len(history) :
         \A h \in history[k].reminders_for : CreatedIn(history[k].created, h)
    /\ run_log.search_calls <= run_log.processed

\* the first run created an exam event and not all of its reminders (an insert
\* failed, or the flag was off); the second run, with the flag on, finds the
\* event and attempts no reminder
C35_MissingRemindersNotBackFilled ==
    /\ Len(history) = 1
    /\ config.study_reminders_enabled
    /\ item.loop = "exam"
    /\ item.existing # { }
    /\ CreatedIn(history[1].created, item.content_hash)
    /\ Cardinality(RemindersOf(calendar, item.content_hash))
          < Cardinality(reminder_days(item.exam_date))
    /\ item.attempted = { }

-----------------------------------------------------------------------------
(* Properties of the reminder fan-out when an insert fails.                  *)

\* C36: a call of create_study_reminder_events attempts every days_before
\* value whose reminder date is not in the past, whichever inserts fail; only
\* the reminders of the failed inserts are missing from the calendar, the
\* events added are those of the inserts that succeeded, and
\* reminder_events_created grows by their number.
C36_FailedInsertDoesNotStopFanOut ==
    ( item.loop = "exam" /\ item.attempted # { } )
    => /\ item.attempted
            = { d \in 1..ReminderDays : item.exam_date - d >= today }
       /\ item.reminder_calls = Cardinality(item.attempted)
       /\ item.inserted \subseteq item.attempted
       /\ Cardinality(item.attempted \ item.inserted) <= MaxFailedInserts
       /\ { e.days_before : e \in NewReminders } = item.inserted
       /\ Cardinality(NewReminders) = Cardinality(item.inserted)
       /\ counts.reminder_events_created
            = item.counts_before.reminder_events_created
                + Cardinality(item.inserted)

\* the insert for two days before an exam three days ahead failed; the
\* reminders for one and for three days before were created and counted
C36_ReminderAfterFailedInsert ==
    /\ item.loop = "exam"
    /\ item.attempted = { 1, 2, 3 }
    /\ item.inserted = { 1, 3 }
    /\ Cardinality(NewReminders) = 2
    /\ counts.reminder_events_created
         = item.counts_before.reminder_events_created + 2

-----------------------------------------------------------------------------
(* Runs on different days with the default windows: homework is read with    *)
(* SYNC_DAYS_AHEAD = 30, exam records with the default of EXAM_DAYS_AHEAD,   *)
(* -60 (config.py lines 146-149), and days go by between two runs while the  *)
(* portal holds the same records.                                            *)

\* homework due on day 0 and on day 30
DayHomeworkRecords ==
    { RawHomework(subject_M, text_ds, << 0 >>),
      RawHomework(subject_M, text_ex, << 30 >>) }

DaySnapshots == ListsUpTo(DayHomeworkRecords, MaxHomework)

\* no period, or one period with an evaluation dated day 0
DayPeriodLists ==
    { << >>,
      << Period(0 - 100, 100, << RawEvaluation(subject_M, text_ds, << 0 >>) >>) >> }

\* how many days go by between two runs
DaysBetweenRuns == { 30, 60 }

\* lines 48-89 of a run whose exam fetch reads the default window
FetchWithDefaults ==
    /\ pc = "idle"
    /\ invocations < MaxInvocations
    /\ homework_list' = get_homework(portal, SyncDaysAhead)
    /\ exams_list' = get_exams(periods, portal, 0 - HistoricalDays,
                               [ k \in 1..Len(periods) |-> TRUE ], TRUE)
    /\ pronote_client' = [ NoClient EXCEPT !.bound = TRUE,
                                           !.authenticated = TRUE,
                                           !.client = TRUE ]
    /\ pc' = "homework_loop"
    /\ idx' = 1
    /\ UNCHANGED << existing_event, config, today, portal, periods, calendar,
                    next_id, invocations, cal_authenticated, counts, error,
                    response, item, run_log, history >>

\* datetime.now() of the next run is some days later
DayPasses ==
    /\ pc = "idle"
    /\ Len(history) = 1
    /\ today = 0
    /\ \E days \in DaysBetweenRuns : today' = today + days
    /\ UNCHANGED << existing_event, config, portal, periods, calendar, next_id,
                    pc, invocations, pronote_client, cal_authenticated,
                    homework_list, exams_list, idx, counts, error, response,
                    item, run_log, history >>

InitDays ==
    /\ config = [ environ |-> FullEnvironment,
                  sync_days_ahead |-> SyncDaysAhead,
                  exam_sync_enabled |-> TRUE,
                  study_reminders_enabled |-> TRUE, dry_run |-> FALSE ]
    /\ today = 0
    /\ portal \in DaySnapshots
    /\ periods \in DayPeriodLists
    /\ calendar = { }
    /\ next_id = 1
    /\ pc = "idle"
    /\ invocations = 0
    /\ pronote_client = NoClient
    /\ cal_authenticated = FALSE
    /\ homework_list = << >>
    /\ exams_list = << >>
    /\ idx = 0
    /\ counts = NoCounts
    /\ error = "none"
    /\ response = { }
    /\ existing_event = { }
    /\ item = NoItem
    /\ run_log = NewRunLog({ })
    /\ history = << >>

NextDays ==
    \/ FetchWithDefaults
    \/ ProcessHomework
    \/ EndHomeworkLoop
    \/ ProcessExam
    \/ EndExamLoop
    \/ PrepareResponse
    \/ HandleException
    \/ Finally
    \/ DayPasses

SpecDays == InitDays /\ [][NextDays]_vars

\* C37: with homework read from today to today + 30 and exam records from
\* today - 60 to today, every event a run creates starts inside the window of
\* 90 days back and 90 days ahead that the search lists at that time, and a
\* search that succeeds for a record whose event the calendar holds returns an
\* event, on whichever day the record is read again.
C37_DefaultWindowsInsideSearchWindow ==
    /\ \A e \in calendar \ run_log.calendar_at_start :
         /\ today - SearchWindowDays < e.start
         /\ e.start < today + SearchWindowDays
    /\ ( item.searches = 1 /\ ~item.search_failed /\ item.carried # { } )
       => item.existing # { }
    /\ \A i \in 1..Len(homework_list) :
         /\ today <= homework_list[i].due_date
         /\ homework_list[i].due_date <= today + SyncDaysAhead
    /\ \A i \in 1..Len(exams_list) :
         /\ today - HistoricalDays <= exams_list[i].exam_date
         /\ exams_list[i].exam_date <= today

\* sixty days after the first run created the event of an exam dated day 0,
\* the second run reads the record again and its search returns the event
C37_ExamFoundSixtyDaysLater ==
    /\ Len(history) = 1
    /\ today = 60
    /\ item.loop = "exam"
    /\ \E e \in item.existing : e.start = today - HistoricalDays
    /\ item.decision = "SKIP"

-----------------------------------------------------------------------------
(* Properties of the date window of get_exams.                               *)

\* the values of days_ahead get_exams is applied to
ExamWindows == { 0 - HistoricalDays, 0, ClientDaysAhead, SyncDaysAhead }

\* what the loop over the periods yields for a window, every read succeeding
EvaluationExams(days_ahead) ==
    period_exams(periods, 1, date_range(days_ahead),
                 [ k \in 1..Len(periods) |-> TRUE ])

\* C38: the records get_exams takes from evaluations are dated inside
\* [start_date, end_date], and start_date <= end_date whatever the sign of the
\* window; with the window of -60 days every such record in the returned list
\* is dated today or earlier, so the condition exam_date > today of line 190 is
\* false for it.
C38_EvaluationExamsInsideWindow ==
    /\ \A days_ahead \in ExamWindows :
         LET range == date_range(days_ahead)
             exams == EvaluationExams(days_ahead)
         IN  /\ range.start_date <= range.end_date
             /\ \A i \in 1..Len(exams) :
                  /\ exams[i].data_source = "evaluation"
                  /\ range.start_date <= exams[i].exam_date
                  /\ exams[i].exam_date <= range.end_date
                  /\ days_ahead < 0 => exams[i].exam_date <= today
    /\ \A i \in 1..Len(exams_list) :
         exams_list[i].data_source = "evaluation"
         => /\ today - HistoricalDays <= exams_list[i].exam_date
            /\ exams_list[i].exam_date <= today
            /\ ~(exams_list[i].exam_date > today)

\* get_exams(-60) has returned a past evaluation of a period that also holds
\* an evaluation three days ahead, which a window of seven days ahead yields
C38_ComingEvaluationLeftOut ==
    /\ ExamsFetched
    /\ \E i \in 1..Len(exams_list) :
         /\ exams_list[i].data_source = "evaluation"
         /\ exams_list[i].exam_date = today - 2
    /\ \E k \in 1..Len(periods) : \E j \in 1..Len(periods[k].evaluations) :
         periods[k].evaluations[j].date = << today + 3 >>
    /\ \A i \in 1..Len(exams_list) : exams_list[i].exam_date # today + 3
    /\ \E i \in 1..Len(EvaluationExams(ClientDaysAhead)) :
         EvaluationExams(ClientDaysAhead)[i].exam_date = today + 3

-----------------------------------------------------------------------------
(* PronoteClient as an object: authenticate, get_homework, get_exams and     *)
(* close called in any order on one instance (also through __enter__ and     *)
(* __exit__).  item is the observation of the call made last, run_log counts *)
(* the calls.                                                                *)

MaxCalls == 4

\* how pronotepy.Client(...) and the lines after it end: logged in, not logged
\* in, the constructor raises, or the logging of line 81 raises after the flag
\* was set
Logins == { "ok", "not_logged_in", "raises", "raises_after_login" }

\* authenticate, lines 59-89: the fields of the instance after the call
authenticate(client, login) ==
    CASE login = "ok" -> [ client EXCEPT !.client = TRUE, !.authenticated = TRUE ]
      [] login = "not_logged_in" -> [ client EXCEPT !.client = TRUE ]
      [] login = "raises" -> client
      [] login = "raises_after_login" ->
            [ client EXCEPT !.client = TRUE, !.authenticated = TRUE ]

\* authenticate, lines 59-89: what the call returns
authenticate_returns(login) ==
    CASE login = "ok" -> "True"
      [] login = "not_logged_in" -> "False"
      [] OTHER -> "raises"

ObservedCall(name, login, raised, read) ==
    [ call |-> name, authenticated_before |-> pronote_client.authenticated,
      login |-> login, raised |-> raised, read |-> read,
      homework_before |-> homework_list, exams_before |-> exams_list ]

\* authenticate() called by the owner of the instance, or by __enter__
ObjectAuthenticate ==
    /\ run_log.fetch_calls < MaxCalls
    /\ \E login \in Logins :
         /\ pronote_client' = authenticate(pronote_client, login)
         /\ error' = IF authenticate_returns(login) = "raises"
                     THEN "Failed to authenticate with Pronote" ELSE "none"
         /\ item' = ObservedCall("authenticate", login,
                                 authenticate_returns(login) = "raises", FALSE)
    /\ run_log' = [ run_log EXCEPT !.fetch_calls = @ + 1 ]
    /\ UNCHANGED << existing_event, config, today, portal, periods, calendar,
                    next_id, pc, invocations, cal_authenticated, homework_list,
                    exams_list, idx, counts, response, history >>

\* get_homework, lines 308-346
ObjectGetHomework ==
    /\ run_log.fetch_calls < MaxCalls
    /\ \E login \in Logins, read_ok \in BOOLEAN :
         LET entered == IF pronote_client.authenticated THEN pronote_client
                        ELSE authenticate(pronote_client, login)
             returned == IF pronote_client.authenticated THEN "True"
                         ELSE authenticate_returns(login)
         IN  /\ pronote_client' = entered
             /\ IF returned = "raises"
                THEN /\ error' = "Failed to authenticate with Pronote"
                     /\ item' = ObservedCall("get_homework", login, TRUE, FALSE)
                     /\ UNCHANGED homework_list
                ELSE IF returned = "False"
                THEN /\ error' = "Cannot fetch homework: authentication failed"
                     /\ item' = ObservedCall("get_homework", login, TRUE, FALSE)
                     /\ UNCHANGED homework_list
                ELSE IF ~read_ok
                THEN /\ error' = "Failed to fetch homework"
                     /\ item' = ObservedCall("get_homework", login, TRUE, TRUE)
                     /\ UNCHANGED homework_list
                ELSE /\ error' = "none"
                     /\ item' = ObservedCall("get_homework", login, FALSE, TRUE)
                     /\ homework_list' = get_homework(portal, ClientDaysAhead)
    /\ run_log' = [ run_log EXCEPT !.fetch_calls = @ + 1 ]
    /\ UNCHANGED << existing_event, config, today, portal, periods, calendar,
                    next_id, pc, invocations, cal_authenticated, exams_list,
                    idx, counts, response, history >>

\* get_exams, lines 104-293
ObjectGetExams ==
    /\ run_log.fetch_calls < MaxCalls
    /\ \E login \in Logins, periods_ok, reread_ok \in BOOLEAN,
          evaluations_ok \in [ 1..Len(periods) -> BOOLEAN ] :
         LET entered == IF pronote_client.authenticated THEN pronote_client
                        ELSE authenticate(pronote_client, login)
             returned == IF pronote_client.authenticated THEN "True"
                         ELSE authenticate_returns(login)
         IN  /\ pronote_client' = entered
             /\ IF returned = "raises"
                THEN /\ error' = "Failed to authenticate with Pronote"
                     /\ item' = ObservedCall("get_exams", login, TRUE, FALSE)
                     /\ UNCHANGED exams_list
                ELSE IF returned = "False"
                THEN /\ error' = "Cannot fetch exams: authentication failed"
                     /\ item' = ObservedCall("get_exams", login, TRUE, FALSE)
                     /\ UNCHANGED exams_list
                ELSE IF ~periods_ok
                THEN /\ error' = "Failed to fetch exams"
                     /\ item' = ObservedCall("get_exams", login, TRUE, TRUE)
                     /\ UNCHANGED exams_list
                ELSE /\ error' = "none"
                     /\ item' = ObservedCall("get_exams", login, FALSE, TRUE)
                     /\ exams_list' = get_exams(periods, portal, 0 - HistoricalDays,
                                                evaluations_ok, reread_ok)
    /\ run_log' = [ run_log EXCEPT !.fetch_calls = @ + 1 ]
    /\ UNCHANGED << existing_event, config, today, portal, periods, calendar,
                    next_id, pc, invocations, cal_authenticated, homework_list,
                    idx, counts, response, history >>

\* close(), lines 661-673, called by the owner of the instance or by __exit__
ObjectClose ==
    /\ run_log.fetch_calls < MaxCalls
    /\ \E close_ok \in BOOLEAN :
         pronote_client' = close(pronote_client, close_ok)
    /\ error' = "none"
    /\ item' = ObservedCall("close", "none", FALSE, FALSE)
    /\ run_log' = [ run_log EXCEPT !.fetch_calls = @ + 1 ]
    /\ UNCHANGED << existing_event, config, today, portal, periods, calendar,
                    next_id, pc, invocations, cal_authenticated, homework_list,
                    exams_list, idx, counts, response, history >>

\* __init__, lines 24-40: client is None and _authenticated is False
InitObject ==
    /\ config = [ environ |-> FullEnvironment,
                  sync_days_ahead |-> SyncDaysAhead,
                  exam_sync_enabled |-> TRUE,
                  study_reminders_enabled |-> TRUE, dry_run |-> TRUE ]
    /\ today = 0
    /\ portal \in { snapshot \in ClientSnapshots : Len(snapshot) = 1 }
    /\ periods \in { list \in PeriodLists : Len(list) = 1 }
    /\ calendar = { }
    /\ next_id = 1
    /\ pc = "object"
    /\ invocations = 0
    /\ pronote_client = [ NoClient EXCEPT !.bound = TRUE ]
    /\ cal_authenticated = FALSE
    /\ homework_list = << >>
    /\ exams_list = << >>
    /\ idx = 0
    /\ counts = NoCounts
    /\ error = "none"
    /\ response = { }
    /\ existing_event = { }
    /\ item = ObservedCall("none", "none", FALSE, FALSE)
    /\ run_log = NewRunLog({ })
    /\ history = << >>

NextObject ==
    \/ ObjectAuthenticate
    \/ ObjectGetHomework
    \/ ObjectGetExams
    \/ ObjectClose

SpecObject == InitObject /\ [][NextObject]_vars

\* C39: whenever _authenticated is true the client is set; after close() the
\* flag is false and the client unset, also when client.close() raised; a fetch
\* called while the flag is false calls authenticate first, and when that does
\* not return True the fetch raises, reads nothing and returns no list.
C39_ClientFlagAndFetchGuard ==
    /\ pronote_client.authenticated => pronote_client.client
    /\ item.call = "close"
       => ~pronote_client.authenticated /\ ~pronote_client.client
    /\ ( item.call \in { "get_homework", "get_exams" }
         /\ ~item.authenticated_before )
       => /\ item.login \in Logins
          /\ item.login # "ok"
             => /\ item.raised
                /\ ~item.read
                /\ error # "none"
                /\ homework_list = item.homework_before
                /\ exams_list = item.exams_before
          /\ ~item.raised => pronote_client.authenticated

\* the instance was closed with client.close() raising, and the fetch that
\* followed found the flag cleared, did not get logged in and raised
C39_FetchAfterFailedCloseRaises ==
    /\ pronote_client.close_calls = 1
    /\ pronote_client.close_error
    /\ item.call = "get_homework"
    /\ ~item.authenticated_before
    /\ item.login = "not_logged_in"
    /\ item.raised
    /\ ~item.read
    /\ item.homework_before # << >>

====
